---- MODULE Spec2Model ----
(***************************************************************************)
(* claude-squad: the tmux session lifecycle (session/tmux/tmux.go), the    *)
(* attach/detach hand-over of the controlling terminal, and the metadata   *)
(* ticker of the TUI (app), as state machines.                             *)
(*                                                                         *)
(*   Spec      one TmuxSession driven by the single-threaded UI loop,      *)
(*             with the goroutines Attach starts                           *)
(*   FairSpec  Spec with the scheduling the Go runtime gives the           *)
(*             goroutines                                                  *)
(*   SpecTick  the instance list of the TUI under the metadata ticker      *)
(*   SpecMonitor  one statusMonitor probed by HasUpdated                   *)
(*   SpecApp   the key handlers of the TUI on a short list                 *)
(*   SpecLimit the key handlers on a list of nine or ten instances         *)
(*   SpecTitle the key handlers while a long title is typed                *)
(*   SpecMain  the root command: daemon, UI, deferred launch               *)
(*   SpecReset the root command under --reset                              *)
(*   SpecReject the key handlers with the error banner and its timers      *)
(*   SpecKeys  the key handlers behind the keySent prelude                 *)
(*   SpecRestore  one instance with its TmuxSession: attach, detach, tick  *)
(***************************************************************************)
EXTENDS Integers, Sequences, FiniteSets, TLC

(* ------------------------------ bounds --------------------------------- *)

\* number of Attach calls in one run
MaxAttach == 2
\* instances in the list of the ticker model
NumInst == 2
\* hideErrMsg messages under way at the same time
MaxPending == 2
\* key messages the operator sends in one run
MaxKeys == 3

\* how often the instance of SpecRestore is attached
MaxReattach == 1

(* ------------------------------ helpers -------------------------------- *)

IsPrefixOf(p, s) == Len(p) <= Len(s) /\ SubSeq(s, 1, Len(p)) = p

\* the nil pointer of a handle-valued field
Nil == 0

\* a nil error
NoErr == <<>>

(* ------------------------------ names ---------------------------------- *)

IsSpace(c) == c = " "

TmuxPrefix == "claudesquad-"

\* regexp `\s+` replaced by "", behind the prefix
toClaudeSquadTmuxName(str) == <<TmuxPrefix>> \o SelectSeq(str, LAMBDA c : ~IsSpace(c))

\* the session names (instance titles) the model enumerates: two that differ
\* only in whitespace, and one that the others are a prefix of
Names == {<<"a">>, <<"a", " ">>, <<"a", "a">>}

SanitizedNames == {toClaudeSquadTmuxName(n) : n \in Names}

ProgramClaude == "claude"

ProgramAider == "aider"

\* the programs the model starts: claude, a command line containing aider, another
Programs == {ProgramClaude, "aider --model m", "bash"}

\* strings.Contains(program, ProgramAider) on the programs above
ContainsAider(program) == program \in {ProgramAider, "aider --model m"}

(* --------------------------- pane content ------------------------------ *)

\* the pane contents the model enumerates: empty, output, a confirmation prompt
Contents == {<<>>, <<"out">>, <<"Do you want">>}

\* sha256 is collision free on the contents of the model
hash(s) == <<"sha256">> \o s

\* the zero value of prevOutputHash: no hash equals it
NilHash == <<>>

\* strings.Contains(content, "Do you want")
ContainsPrompt(content) == \E k \in 1..Len(content) : content[k] = "Do you want"

newStatusMonitor == [alive |-> TRUE, prevOutputHash |-> NilHash]

NoMonitor == [alive |-> FALSE, prevOutputHash |-> NilHash]

\* NewTmuxSession: the name and its sanitized form, every other field zero
NewTmuxSession(name) ==
    [Name |-> name, sanitizedName |-> toClaudeSquadTmuxName(name),
     ptmx |-> Nil, monitor |-> NoMonitor,
     attachCh |-> Nil, oldState |-> Nil, ctx |-> Nil, cancel |-> Nil, wg |-> Nil]

VARIABLES
    t,          \* the TmuxSession
    mux,        \* names of the sessions the tmux server holds
    ptys,       \* every pty opened so far: handle k is ptys[k], "open" or "closed"
    termRaw,    \* the controlling terminal is in raw mode
    chans,      \* chans[k]: how often the k-th attach channel was closed
    readers,    \* live pty->stdout goroutines: [h: the pty read once bound, wg: wait group]
    monitors,   \* contexts whose window-size monitor is still running
    cancelled,  \* contexts that were cancelled
    timeoutCh,  \* the 50 ms timeout channel of the current attach is closed
    stdinPc,    \* the stdin goroutine: "none", "read", a step of Detach, "exit"
    stdinOpen,  \* stdin has not reached EOF
    detachErr,  \* the error the running Detach returns
    uiPc,       \* the UI loop: "idle" between messages, "blocked" in <-ch
    uiCh,       \* the channel the blocked handler waits for
    uiHandled,  \* flips with every message the UI loop dispatches
    phase,      \* lifecycle: "uninit", "failed", "detached", "attached", "closed"
    ret,        \* what the last completed operation did and returned
    lastRead,   \* the last read of stdin since Attach and what was done with it
    detachLog,  \* the steps the last Detach took, in order
    autoYes,    \* home.autoYes
    instances,  \* the list of instances of the TUI
    panes,      \* pane content per instance
    selectedIdx,\* the selected instance of the list
    lastTick,   \* per instance, what the tick just handled did; <<>> otherwise
    mon,        \* a statusMonitor probed call after call
    monPane,    \* the pane that monitor's session shows
    monLog,     \* what the last HasUpdated on it saw and returned
    state,      \* home.state: "default", "new" or "prompt"
    promptAfterName, \* home.promptAfterName
    stored,     \* the persisted list of instance records
    quit,       \* the UI returned tea.Quit
    appLog,     \* what the key handler just run did
    mainPc,     \* where the root command is
    resetFlag,  \* --reset
    daemon,     \* a daemon process is running
    mainLog,    \* what the root command did so far, in order
    errBox,     \* the error banner: 0 when clear, else the number of the
                \* showErrorMessageForShortTime call that set it
    hideMsgs,   \* the calls whose hideErrMsg is still to be delivered
    bannerLog,  \* the banner the last hideErrMsg cleared, and the call it came from
    keySent,    \* home.keySent
    resent,     \* the key messages re-sent by handleKeyPress, not yet delivered
    arrived,    \* how many key messages of the operator Update has received
    keyLog      \* the key messages acted on, in order

tmuxVars == <<t, mux, ptys, termRaw, chans, readers, monitors, cancelled,
              timeoutCh, stdinPc, stdinOpen, detachErr, uiPc, uiCh, uiHandled,
              phase, ret, lastRead, detachLog>>

tickVars == <<autoYes, instances, panes, selectedIdx, lastTick>>

monVars == <<mon, monPane, monLog>>

\* everything but the session, and everything but the ticker's list
appVars == <<state, promptAfterName, stored, quit, appLog>>

mainVars == <<mainPc, resetFlag, daemon, mainLog>>

\* the banner and the key messages the bubbletea runtime carries
uiVars == <<errBox, hideMsgs, bannerLog, keySent, resent, arrived, keyLog>>

outsideSession == <<tickVars, monVars, appVars, mainVars, uiVars>>

outsideTicker == <<tmuxVars, monVars, appVars, mainVars, uiVars>>

vars == <<tmuxVars, tickVars, monVars, appVars, mainVars, uiVars>>

(* ------------------------- the tmux server ----------------------------- *)

\* `tmux has-session -t=name`: an exact match
DoesSessionExist(name) == name \in mux

\* `-t name` resolves to the session of that exact name, else to the single
\* session whose name starts with it; several such sessions are an error
KillTarget(target, sessions) ==
    IF target \in sessions THEN {target}
    ELSE LET m == {s \in sessions : IsPrefixOf(target, s)}
         IN  IF Cardinality(m) = 1 THEN m ELSE {}

\* `tmux kill-session -t target`; cmdOK is false when the command cannot run
KillSession(sessions, target, cmdOK) ==
    LET k == IF cmdOK THEN KillTarget(target, sessions) ELSE {}
    IN  [mux |-> sessions \ k, ok |-> k # {}]

(* ------------------------------- ptys ---------------------------------- *)

\* (*os.File).Close: a second Close of a handle fails; ioOK is the result of close(2)
PtyClose(pt, h, ioOK) ==
    IF h \in DOMAIN pt
    THEN [ptys |-> [pt EXCEPT ![h] = "closed"], ok |-> pt[h] = "open" /\ ioOK]
    ELSE [ptys |-> pt, ok |-> FALSE]

IsOpen(h) == h \in DOMAIN ptys /\ ptys[h] = "open"

(* --------------------------- TmuxSession ------------------------------- *)

\* a Restore that keeps the monitor, and with it the stored hash
RestoreKeepsMonitor(s, pt, ptyOK) ==
    IF ptyOK
    THEN [t |-> [s EXCEPT !.ptmx = Len(pt) + 1],
          ptys |-> Append(pt, "open"), err |-> NoErr]
    ELSE [t |-> s, ptys |-> pt, err |-> <<"error opening PTY">>]

\* Restore on the session s with the ptys pt: a fresh attach pty and a fresh monitor
Restore(s, pt, ptyOK) ==
    IF ptyOK
    THEN [t |-> [s EXCEPT !.ptmx = Len(pt) + 1, !.monitor = newStatusMonitor],
          ptys |-> Append(pt, "open"), err |-> NoErr]
    ELSE [t |-> s, ptys |-> pt, err |-> <<"error opening PTY">>]

\* how Close joins the errors it collected
CloseErrors(errs) ==
    IF Len(errs) = 0 THEN NoErr
    ELSE IF Len(errs) = 1 THEN errs
    ELSE <<"multiple errors occurred during cleanup">> \o errs

\* a Close that returns at the first error, before kill-session
CloseStopsAtFirstError(s, pt, sessions, ioOK, cmdOK) ==
    LET c == IF s.ptmx # Nil THEN PtyClose(pt, s.ptmx, ioOK)
                             ELSE [ptys |-> pt, ok |-> TRUE]
        k == IF c.ok THEN KillSession(sessions, s.sanitizedName, cmdOK)
                     ELSE [mux |-> sessions, ok |-> TRUE]
        errs == (IF c.ok THEN <<>> ELSE <<"error closing PTY">>)
                \o (IF k.ok THEN <<>> ELSE <<"error killing tmux session">>)
    IN  [t |-> [s EXCEPT !.ptmx = Nil], ptys |-> c.ptys, mux |-> k.mux,
         err |-> CloseErrors(errs)]

\* Close on the session s: close the attach pty if set, then kill-session
Close(s, pt, sessions, ioOK, cmdOK) ==
    LET c == IF s.ptmx # Nil THEN PtyClose(pt, s.ptmx, ioOK)
                             ELSE [ptys |-> pt, ok |-> TRUE]
        k == KillSession(sessions, s.sanitizedName, cmdOK)
        errs == (IF c.ok THEN <<>> ELSE <<"error closing PTY">>)
                \o (IF k.ok THEN <<>> ELSE <<"error killing tmux session">>)
    IN  [t |-> [s EXCEPT !.ptmx = Nil], ptys |-> c.ptys, mux |-> k.mux,
         err |-> CloseErrors(errs)]

\* fmt.Errorf("%v (cleanup error: %v)", err, cleanupErr) when cleanup failed
WithCleanup(err, cleanupErr) ==
    IF cleanupErr = NoErr THEN err
    ELSE (IF err = NoErr THEN <<"<nil>">> ELSE err) \o <<"cleanup error">> \o cleanupErr

NoRet == [op |-> "none", err |-> NoErr, opened |-> {}, launched |-> FALSE,
          kills |-> 0, existed |-> FALSE, muxBefore |-> {}, tap |-> "none",
          updated |-> FALSE, hasPrompt |-> FALSE]

\* the guard of Start: the session already exists
\* a Start that does not look for the session
StartNeverChecks == FALSE

\* Start: if t.DoesSessionExist()
StartAlreadyExists == DoesSessionExist(t.sanitizedName)

\* the first-run sweep: the key sequence tapped when the trust screen shows
TrustSweep(program, seen) ==
    IF (program = ProgramClaude \/ ContainsAider(program)) /\ seen
    THEN IF program # ProgramClaude THEN "d+enter" ELSE "enter"
    ELSE "none"

\* Start(program, workDir), whole: the outcome of each command is an input
StartBody(program, ptyOK, partial, appears, restoreOK, ioOK, cmdOK, seen) ==
    LET r0 == [NoRet EXCEPT !.op = "Start", !.muxBefore = mux,
                            !.existed = t.sanitizedName \in mux]
        name == t.sanitizedName
    IN
    IF StartAlreadyExists
    THEN /\ ret' = [r0 EXCEPT !.err = <<"tmux session already exists">>]
         /\ phase' = "failed"
         /\ UNCHANGED <<t, mux, ptys>>
    ELSE IF ~ptyOK
    THEN \* pty.Start failed: kill what may have been created
         LET m1 == IF partial THEN mux \cup {name} ELSE mux
             k  == IF name \in m1 THEN KillSession(m1, name, cmdOK)
                                  ELSE [mux |-> m1, ok |-> TRUE]
             e  == WithCleanup(<<"pty start failed">>,
                               IF k.ok THEN NoErr ELSE <<"kill-session failed">>)
         IN  /\ ret' = [r0 EXCEPT !.err = <<"error starting tmux session">> \o e,
                                  !.launched = TRUE,
                                  !.kills = IF name \in m1 THEN 1 ELSE 0]
             /\ mux' = k.mux
             /\ phase' = "failed"
             /\ UNCHANGED <<t, ptys>>
    ELSE LET launch == Len(ptys) + 1
             p1 == Append(ptys, "open")
         IN
         IF ~appears
         THEN \* 2 s passed without the session: t.Close(), the launching pty stays
              LET c == Close(t, p1, mux, ioOK, cmdOK)
              IN  /\ ret' = [r0 EXCEPT
                        !.err = <<"timed out waiting for tmux session">>
                                \o WithCleanup(NoErr, c.err) \o
                                (IF c.err = NoErr THEN <<"<nil>">> ELSE <<>>),
                        !.launched = TRUE, !.opened = {launch}, !.kills = 1]
                  /\ t' = c.t /\ ptys' = c.ptys /\ mux' = c.mux
                  /\ phase' = "closed"
         ELSE LET m1 == mux \cup {name}
                  p2 == PtyClose(p1, launch, ioOK).ptys
                  r  == Restore(t, p2, restoreOK)
              IN
              IF r.err # NoErr
              THEN LET c == Close(r.t, r.ptys, m1, ioOK, cmdOK)
                   IN  /\ ret' = [r0 EXCEPT
                             !.err = <<"error restoring tmux session">>
                                     \o WithCleanup(r.err, c.err),
                             !.launched = TRUE, !.opened = {launch}, !.kills = 1]
                       /\ t' = c.t /\ ptys' = c.ptys /\ mux' = c.mux
                       /\ phase' = "closed"
              ELSE /\ ret' = [r0 EXCEPT !.launched = TRUE,
                                        !.opened = {launch, r.t.ptmx},
                                        !.tap = TrustSweep(program, seen)]
                   /\ t' = r.t /\ ptys' = r.ptys /\ mux' = m1
                   /\ phase' = "detached"

goVars == <<readers, monitors, cancelled, timeoutCh, stdinPc, stdinOpen,
            detachErr, lastRead, detachLog, chans>>

\* the UI thread calls Start on a session that was never started
Start ==
    /\ uiPc = "idle" /\ phase = "uninit"
    /\ \E program \in Programs :
       \E ptyOK, partial, appears, restoreOK, ioOK, cmdOK, seen \in BOOLEAN :
          StartBody(program, ptyOK, partial, appears, restoreOK, ioOK, cmdOK, seen)
    /\ uiHandled' = ~uiHandled
    /\ UNCHANGED <<termRaw, uiPc, uiCh, goVars, outsideSession>>

\* the UI thread calls Close: kill or pause of the instance
CloseCall ==
    /\ uiPc = "idle" /\ phase # "uninit"
    /\ \E ioOK, cmdOK \in BOOLEAN :
          LET c == Close(t, ptys, mux, ioOK, cmdOK)
          IN  /\ t' = c.t /\ ptys' = c.ptys /\ mux' = c.mux
              /\ ret' = [NoRet EXCEPT !.op = "Close", !.err = c.err, !.kills = 1,
                                      !.muxBefore = mux]
    /\ phase' = "closed"
    /\ uiHandled' = ~uiHandled
    /\ UNCHANGED <<termRaw, uiPc, uiCh, goVars, outsideSession>>

\* a monitor that never records what it saw
HasUpdatedForgets(m, content, captureOK) ==
    [monitor |-> m, updated |-> captureOK /\ hash(content) # m.prevOutputHash,
     hasPrompt |-> captureOK /\ ContainsPrompt(content)]

\* HasUpdated on the monitor m: content and captureOK are what CapturePaneContent
\* returned
HasUpdated(m, content, captureOK) ==
    IF ~captureOK
    THEN [monitor |-> m, updated |-> FALSE, hasPrompt |-> FALSE]
    ELSE IF hash(content) # m.prevOutputHash
    THEN [monitor |-> [m EXCEPT !.prevOutputHash = hash(content)],
          updated |-> TRUE, hasPrompt |-> ContainsPrompt(content)]
    ELSE [monitor |-> m, updated |-> FALSE, hasPrompt |-> ContainsPrompt(content)]

\* the metadata tick probes the session (started, not paused); the pane shows
\* whatever the program has printed by then
HasUpdatedCall ==
    /\ uiPc = "idle" /\ phase \in {"detached", "attached"}
    /\ \E cmdOK \in BOOLEAN, content \in Contents :
          LET r == HasUpdated(t.monitor, content,
                              cmdOK /\ DoesSessionExist(t.sanitizedName))
          IN  /\ t' = [t EXCEPT !.monitor = r.monitor]
              /\ ret' = [NoRet EXCEPT !.op = "HasUpdated", !.updated = r.updated,
                                      !.hasPrompt = r.hasPrompt]
    /\ uiHandled' = ~uiHandled
    /\ UNCHANGED <<mux, ptys, termRaw, uiPc, uiCh, phase, goVars, outsideSession>>

(* ------------------------------ Attach --------------------------------- *)

\* no read of stdin yet
NoRead == [buf |-> <<>>, did |-> "none", late |-> FALSE]

\* a saved terminal state (*term.State): of a terminal not in raw mode, or in it
SavedCooked == 1

SavedRaw == 2

\* term.MakeRaw returns the state it found
MakeRawSaved == IF termRaw THEN SavedRaw ELSE SavedCooked

\* the fields Attach sets for the k-th attach: channel, wait group and context k
AttachFields(s, k) ==
    [s EXCEPT !.oldState = MakeRawSaved, !.attachCh = k, !.wg = k, !.ctx = k,
              !.cancel = k]

\* monitorWindowSize: a goroutine that lives until the context is cancelled
monitorWindowSize(k) == monitors \cup {k}

\* a handler that returns without reading the channel
AwaitDetachSkipped == "idle"

\* what the Enter key handler does once Attach returned the channel: `<-ch`
AwaitDetach == "blocked"

\* the Enter key: Attach, and on success the handler blocks on the channel
AttachCall ==
    /\ uiPc = "idle" /\ phase \in {"detached", "attached"}
    /\ Len(chans) < MaxAttach
    /\ uiHandled' = ~uiHandled
    /\ \E rawOK \in BOOLEAN :
          IF ~rawOK
          THEN /\ ret' = [NoRet EXCEPT !.op = "Attach",
                                       !.err = <<"error making terminal raw">>]
               /\ UNCHANGED <<t, termRaw, chans, readers, monitors, timeoutCh,
                              stdinPc, uiPc, uiCh, phase, lastRead>>
          ELSE LET k == Len(chans) + 1
               IN  /\ termRaw' = TRUE
                   /\ t' = AttachFields(t, k)
                   /\ chans' = Append(chans, 0)
                   /\ readers' = readers \cup {[h |-> Nil, wg |-> k, bound |-> FALSE]}
                   /\ timeoutCh' = FALSE
                   /\ stdinPc' = "read"
                   /\ monitors' = monitorWindowSize(k)
                   /\ phase' = "attached"
                   /\ ret' = [NoRet EXCEPT !.op = "Attach"]
                   /\ uiPc' = AwaitDetach
                   /\ uiCh' = k
                   /\ lastRead' = NoRead
    /\ UNCHANGED <<mux, ptys, cancelled, stdinOpen, detachErr,
                   detachLog, outsideSession>>

\* `<-ch` returns once the channel is closed; the handler returns tea.WindowSize()
UIResume ==
    /\ uiPc = "blocked" /\ chans[uiCh] > 0
    /\ uiPc' = "idle"
    /\ UNCHANGED <<t, mux, ptys, termRaw, uiCh, uiHandled, phase, ret,
                   goVars, outsideSession>>

\* the goroutine evaluates t.ptmx when it comes to run io.Copy(os.Stdout, t.ptmx):
\* nothing orders this read of the field with the writes of Detach and Close
ReaderBind ==
    /\ \E r \in readers :
          /\ ~r.bound
          /\ readers' = (readers \ {r}) \cup {[r EXCEPT !.h = t.ptmx, !.bound = TRUE]}
    /\ UNCHANGED <<t, mux, ptys, termRaw, chans, monitors, cancelled,
                   timeoutCh, stdinPc, stdinOpen, detachErr, uiPc, uiCh,
                   uiHandled, phase, ret, lastRead, detachLog, outsideSession>>

\* io.Copy returns when the file it reads is closed, or is no file
ReaderExit ==
    /\ \E r \in readers :
          /\ r.bound
          /\ r.h \in DOMAIN ptys => ptys[r.h] = "closed"
          /\ readers' = readers \ {r}
    /\ UNCHANGED <<t, mux, ptys, termRaw, chans, monitors, cancelled,
                   timeoutCh, stdinPc, stdinOpen, detachErr, uiPc, uiCh,
                   uiHandled, phase, ret, lastRead, detachLog, outsideSession>>

\* the window-size monitor returns when its context is done
MonitorExit ==
    /\ \E k \in monitors \cap cancelled : monitors' = monitors \ {k}
    /\ UNCHANGED <<t, mux, ptys, termRaw, chans, readers, cancelled,
                   timeoutCh, stdinPc, stdinOpen, detachErr, uiPc, uiCh,
                   uiHandled, phase, ret, lastRead, detachLog, outsideSession>>

\* 50 ms after Attach the timeout channel is closed
TimeoutFires ==
    /\ phase = "attached" /\ ~timeoutCh
    /\ timeoutCh' = TRUE
    /\ UNCHANGED <<t, mux, ptys, termRaw, chans, readers, monitors,
                   cancelled, stdinPc, stdinOpen, detachErr, uiPc, uiCh,
                   uiHandled, phase, ret, lastRead, detachLog, outsideSession>>

(* ------------------------- the stdin goroutine -------------------------- *)

CtrlQ == 17

\* what one read of stdin returns: Ctrl-Q alone, another byte, or several bytes
Bufs == {<<CtrlQ>>, <<97>>, <<CtrlQ, 97>>, <<97, CtrlQ>>}

\* a test of the first byte alone, whatever the length of the read
IsCtrlQFirstByte(buf) == buf[1] = CtrlQ

\* nr == 1 && buf[0] == 17
IsCtrlQ(buf) == Len(buf) = 1 /\ buf[1] = CtrlQ

\* what the loop does with the bytes of one read
StdinDispatch(buf) ==
    IF ~timeoutCh THEN "nuked"
    ELSE IF IsCtrlQ(buf) THEN "detach"
    ELSE "forward"

\* one pass of the read loop
StdinRead ==
    /\ stdinPc = "read" /\ stdinOpen
    /\ \/ \E buf \in Bufs :
             /\ lastRead' = [buf |-> buf, did |-> StdinDispatch(buf),
                             late |-> timeoutCh]
             /\ stdinPc' = IF StdinDispatch(buf) = "detach" THEN "d_close"
                                                            ELSE "read"
             /\ detachLog' = IF StdinDispatch(buf) = "detach" THEN <<>>
                                                              ELSE detachLog
             /\ UNCHANGED stdinOpen
       \/ \* io.EOF: break
          /\ stdinPc' = "exit" /\ stdinOpen' = FALSE
          /\ UNCHANGED <<lastRead, detachLog>>
    /\ UNCHANGED <<t, mux, ptys, termRaw, chans, readers, monitors,
                   cancelled, timeoutCh, detachErr, uiPc, uiCh, uiHandled,
                   phase, ret, outsideSession>>

(* ------------------------------ Detach --------------------------------- *)

\* a deferred function that leaves the wait group in place
DetachDeferredKeepsWg(s) ==
    [s EXCEPT !.attachCh = Nil, !.oldState = Nil, !.cancel = Nil, !.ctx = Nil]

\* the deferred function of Detach: the fields it resets
DetachDeferred(s) ==
    [s EXCEPT !.attachCh = Nil, !.oldState = Nil, !.cancel = Nil, !.ctx = Nil,
              !.wg = Nil]

\* term.Restore(fd, oldState)
TermRestore(saved) == saved = SavedRaw

\* the step Detach takes after the attach pty was closed without error
AfterPtyClosed == "d_restore"

\* the step Detach takes when Restore failed
AfterRestoreFailed == "d_defer"

\* t.ptmx.Close()
DetachClosePty ==
    /\ stdinPc = "d_close"
    /\ \E ioOK \in BOOLEAN :
          LET c == PtyClose(ptys, t.ptmx, ioOK)
          IN  /\ ptys' = c.ptys
              /\ IF c.ok
                 THEN /\ stdinPc' = AfterPtyClosed
                      /\ detachLog' = Append(detachLog, "close")
                      /\ UNCHANGED detachErr
                 ELSE /\ stdinPc' = "d_defer"
                      /\ detachErr' = <<"error closing attach pty session">>
                      /\ UNCHANGED detachLog
    /\ UNCHANGED <<t, mux, termRaw, chans, readers, monitors, cancelled,
                   timeoutCh, stdinOpen, uiPc, uiCh, uiHandled, phase, ret,
                   lastRead, outsideSession>>

\* t.Restore()
DetachRestore ==
    /\ stdinPc = "d_restore"
    /\ \E ptyOK \in BOOLEAN :
          LET r == Restore(t, ptys, ptyOK)
          IN  /\ t' = r.t /\ ptys' = r.ptys
              /\ IF r.err = NoErr
                 THEN /\ stdinPc' = "d_term"
                      /\ detachLog' = Append(detachLog, "restore")
                      /\ UNCHANGED detachErr
                 ELSE /\ stdinPc' = AfterRestoreFailed
                      /\ detachErr' = r.err
                      /\ UNCHANGED detachLog
    /\ UNCHANGED <<mux, termRaw, chans, readers, monitors, cancelled,
                   timeoutCh, stdinOpen, uiPc, uiCh, uiHandled, phase, ret,
                   lastRead, outsideSession>>

\* term.Restore(os.Stdin.Fd(), t.oldState)
DetachRestoreTerm ==
    /\ stdinPc = "d_term"
    /\ \E termOK \in BOOLEAN :
          IF termOK
          THEN /\ termRaw' = TermRestore(t.oldState)
               /\ stdinPc' = "d_cancel"
               /\ detachLog' = Append(detachLog, "term")
               /\ UNCHANGED detachErr
          ELSE /\ stdinPc' = "d_defer"
               /\ detachErr' = <<"error restoring terminal state">>
               /\ UNCHANGED <<termRaw, detachLog>>
    /\ UNCHANGED <<t, mux, ptys, chans, readers, monitors, cancelled,
                   timeoutCh, stdinOpen, uiPc, uiCh, uiHandled, phase, ret,
                   lastRead, outsideSession>>

\* t.cancel()
DetachCancel ==
    /\ stdinPc = "d_cancel"
    /\ cancelled' = cancelled \cup {t.ctx}
    /\ stdinPc' = "d_wait"
    /\ detachLog' = Append(detachLog, "cancel")
    /\ UNCHANGED <<t, mux, ptys, termRaw, chans, readers, monitors,
                   timeoutCh, stdinOpen, detachErr, uiPc, uiCh, uiHandled,
                   phase, ret, lastRead, outsideSession>>

\* t.wg.Wait(): until every goroutine of the wait group is done; then return nil
DetachWait ==
    /\ stdinPc = "d_wait"
    /\ \A r \in readers : r.wg # t.wg
    /\ stdinPc' = "d_defer"
    /\ detachErr' = NoErr
    /\ detachLog' = Append(detachLog, "wait")
    /\ UNCHANGED <<t, mux, ptys, termRaw, chans, readers, monitors,
                   cancelled, timeoutCh, stdinOpen, uiPc, uiCh, uiHandled,
                   phase, ret, lastRead, outsideSession>>

\* the deferred function runs as Detach returns: close(t.attachCh), reset the
\* fields; the goroutine logs the error and returns
DetachReturn ==
    /\ stdinPc = "d_defer"
    /\ t.attachCh \in DOMAIN chans
    /\ chans' = [chans EXCEPT ![t.attachCh] = @ + 1]
    /\ t' = DetachDeferred(t)
    /\ phase' = "detached"
    /\ ret' = [NoRet EXCEPT !.op = "Detach", !.err = detachErr]
    /\ detachLog' = Append(detachLog, "signal")
    /\ stdinPc' = "exit"
    /\ lastRead' = NoRead
    /\ UNCHANGED <<mux, ptys, termRaw, readers, monitors, cancelled,
                   timeoutCh, stdinOpen, detachErr, uiPc, uiCh, uiHandled,
                   outsideSession>>

(* ------------------------- the ticker's list ---------------------------- *)

\* the values the list's variables keep in the session model
TickIdle ==
    /\ autoYes = FALSE /\ instances = <<>> /\ panes = <<>>
    /\ selectedIdx = 0 /\ lastTick = <<>>

\* no HasUpdated call yet
NoProbe == [called |-> FALSE, captured |-> FALSE, content |-> <<>>,
            before |-> {}, updated |-> FALSE, hasPrompt |-> FALSE]

\* the values the probed monitor's variables keep in the other models
MonIdle == mon = NoMonitor /\ monPane = <<>> /\ monLog = NoProbe

\* no key handled yet
NoKey == [key |-> "none", err |-> "", lenBefore |-> 0, saveArg |-> <<>>]

\* the values the key handlers' variables keep in the other models
AppIdle ==
    /\ state = "default" /\ promptAfterName = FALSE /\ stored = <<>>
    /\ quit = FALSE /\ appLog = NoKey

\* the root command while the UI runs: the daemon was stopped, the list loaded
MainIdle ==
    /\ mainPc = "ui" /\ resetFlag = FALSE /\ daemon = FALSE
    /\ mainLog = <<"StopDaemon", "newHome">>

\* no hideErrMsg was delivered yet
NoClear == [cleared |-> 0, by |-> 0]

\* no banner, no key message under way
UIIdle ==
    /\ errBox = 0 /\ hideMsgs = {} /\ bannerLog = NoClear
    /\ keySent = FALSE /\ resent = {} /\ arrived = 0 /\ keyLog = <<>>

\* a step that neither touches the banner nor is a key message of the runtime:
\* the specifications of the handlers alone leave both out
Quiet == UNCHANGED uiVars

(* --------------------------- specification ------------------------------ *)

\* a session that was constructed and not started, and no goroutine
InitSession ==
    /\ ptys = <<>>
    /\ termRaw = FALSE
    /\ chans = <<>>
    /\ readers = {} /\ monitors = {} /\ cancelled = {}
    /\ timeoutCh = FALSE
    /\ stdinPc = "none" /\ stdinOpen = TRUE
    /\ detachErr = NoErr
    /\ uiPc = "idle" /\ uiCh = Nil /\ uiHandled = FALSE
    /\ phase = "uninit"
    /\ ret = NoRet
    /\ lastRead = NoRead
    /\ detachLog = <<>>

\* any name, beside any sessions the server still holds
Init ==
    /\ \E name \in Names : t = NewTmuxSession(name)
    /\ mux \in SUBSET SanitizedNames
    /\ InitSession
    /\ TickIdle /\ MonIdle /\ AppIdle /\ MainIdle /\ UIIdle

\* one name and an empty server: what Detach does depends on neither
FairInit ==
    /\ t = NewTmuxSession(<<"a", " ">>)
    /\ mux = {}
    /\ InitSession
    /\ TickIdle /\ MonIdle /\ AppIdle /\ MainIdle /\ UIIdle

Next ==
    \/ Start
    \/ CloseCall
    \/ HasUpdatedCall
    \/ AttachCall
    \/ UIResume
    \/ ReaderBind
    \/ ReaderExit
    \/ MonitorExit
    \/ TimeoutFires
    \/ StdinRead
    \/ DetachClosePty
    \/ DetachRestore
    \/ DetachRestoreTerm
    \/ DetachCancel
    \/ DetachWait
    \/ DetachReturn

Spec == Init /\ [][Next]_vars

\* the Go scheduler runs every goroutine that can take a step: the steps of
\* Detach, the reader that saw its pty closed, the handler whose channel closed
FairSpec ==
    /\ FairInit /\ [][Next]_vars
    /\ WF_vars(DetachClosePty) /\ WF_vars(DetachRestore)
    /\ WF_vars(DetachRestoreTerm) /\ WF_vars(DetachCancel)
    /\ WF_vars(DetachWait) /\ WF_vars(DetachReturn)
    /\ WF_vars(ReaderBind) /\ WF_vars(ReaderExit) /\ WF_vars(UIResume)

(* ------------------------------ claims ---------------------------------- *)

InDetach == stdinPc \in {"d_close", "d_restore", "d_term", "d_cancel", "d_wait",
                         "d_defer"}

AttachChOpen == t.attachCh \in DOMAIN chans /\ chans[t.attachCh] = 0

\* C3: after any Detach call returns, on the error paths too, the controlling
\* terminal is no longer in raw mode
C3_DetachRestoresTerminal == ret.op = "Detach" => ~termRaw

\* C4: while the channel Attach returned is open the UI loop dispatches no
\* message, and the blocked handler resumes only once Detach closed the channel
C4_TerminalHasOneOwner ==
    [][/\ AttachChOpen => uiHandled' = uiHandled
       /\ (uiPc = "blocked" /\ uiPc' = "idle") =>
              (chans[uiCh] > 0 /\ ret.op = "Detach")]_vars

C4_Witness == uiPc = "idle" /\ ret.op = "Detach" /\ uiCh # Nil /\ ~AttachChOpen

\* C5 as stated: every read of the single byte 0x11 while attached, also one in
\* the first 50 ms, invokes Detach
C5_CtrlQAlwaysDetaches == lastRead.buf = <<CtrlQ>> => lastRead.did = "detach"

\* C5 amended: a read invokes Detach exactly when it returns the single byte 0x11
\* after the 50 ms window; every read inside the window is discarded
C5_CtrlQDetachesAfterWindow ==
    lastRead.did # "none" =>
        /\ lastRead.did = "detach" <=> (lastRead.late /\ lastRead.buf = <<17>>)
        /\ ~lastRead.late => lastRead.did = "nuked"
        /\ (lastRead.did = "detach" /\ phase = "attached") => InDetach

C5_Witness == lastRead.buf = <<17>> /\ lastRead.did = "detach" /\ InDetach

\* C6: once Detach runs, the attach channel is closed eventually and never twice,
\* the blocked handler resumes, and a Detach that returned nil closed the pty,
\* restored, reset the terminal, cancelled and waited, in that order, before
\* it signalled
C6_DetachAlwaysSignals ==
    /\ \A k \in 1..MaxAttach :
          (InDetach /\ t.attachCh = k) ~> (k \in DOMAIN chans /\ chans[k] = 1)
    /\ (InDetach /\ uiPc = "blocked") ~> (uiPc = "idle")
    /\ [](\A k \in DOMAIN chans : chans[k] <= 1)
    /\ []((ret.op = "Detach" /\ ret.err = NoErr) =>
             detachLog = <<"close", "restore", "term", "cancel", "wait", "signal">>)

C6_Witness == ret.op = "Detach" /\ ret.err = NoErr /\ uiPc = "idle"

\* C7: the attach-only fields are nil whenever the session is not attached
C7_AttachFieldsNilWhenDetached ==
    phase # "attached" =>
        /\ t.attachCh = Nil /\ t.oldState = Nil /\ t.ctx = Nil
        /\ t.cancel = Nil /\ t.wg = Nil

C7_Witness == phase = "detached" /\ ret.op = "Detach" /\ ret.err # NoErr

\* C8: between operations a started session's ptmx is an open pty; after a
\* Detach it is not the handle that Detach closed
C8_PtmxOpenWhenDetached == phase = "detached" => IsOpen(t.ptmx)

\* C9: Start on a name that already exists fails and touches nothing
C9_StartOnExistingTouchesNothing ==
    (ret.op = "Start" /\ ret.existed) =>
        /\ ret.err # NoErr
        /\ ~ret.launched /\ ret.kills = 0 /\ ret.opened = {}
        /\ mux = ret.muxBefore /\ ptys = <<>>
        /\ t = NewTmuxSession(t.Name)

C9_Witness == ret.op = "Start" /\ ret.existed /\ ret.err # NoErr

HasPart(err, part) == \E k \in 1..Len(err) : err[k] = part

\* C10: a Start that fails after it began launching has closed every pty it
\* opened and left no session of its name, or reports the failed cleanup
C10_FailedStartReleasesAll ==
    (ret.op = "Start" /\ ret.launched /\ ret.err # NoErr) =>
        /\ \A h \in ret.opened : ptys[h] = "closed"
        /\ t.sanitizedName \notin mux \/ HasPart(ret.err, "cleanup error")

(* --------------------- the instances and the ticker --------------------- *)

Running == "Running"

Ready == "Ready"

Paused == "Paused"

\* an instance loaded from storage or started in this run
StartedInstance(status, auto) ==
    [started |-> TRUE, Status |-> status, AutoYes |-> auto,
     monitor |-> IF status = Paused THEN NoMonitor ELSE newStatusMonitor]

\* session.NewInstance: not started, no session yet
NewInstance ==
    [started |-> FALSE, Status |-> Ready, AutoYes |-> FALSE, monitor |-> NoMonitor]

InstanceStarted(inst) == inst.started

InstancePaused(inst) == inst.Status = Paused

\* Instance.HasUpdated forwards to the session's HasUpdated
InstanceHasUpdated(inst, content, captureOK) ==
    HasUpdated(inst.monitor, content, captureOK)

\* Instance.TapEnter writes Enter to the pty only when AutoYes is set
InstanceTapEnter(inst) == inst.started /\ inst.AutoYes

SetStatus(inst, status) == [inst EXCEPT !.Status = status]

\* a loop that skips only the unstarted instances
TickSkipsUnstarted(inst) == ~InstanceStarted(inst)

\* the instance the loop skips
TickSkips(inst) == ~InstanceStarted(inst) \/ InstancePaused(inst)

\* a tick whose prompt branch also sets Ready
TickBranchPromptReady(inst, updated, prompt) ==
    IF updated THEN [inst |-> [inst EXCEPT !.Status = "Running"], tapped |-> FALSE]
    ELSE [inst |-> [inst EXCEPT !.Status = "Ready"], tapped |-> prompt]

\* a tick whose last branch sets Loading
TickBranchLoading(inst, updated, prompt) ==
    IF updated THEN [inst |-> [inst EXCEPT !.Status = "Running"], tapped |-> FALSE]
    ELSE IF prompt THEN [inst |-> inst, tapped |-> TRUE]
    ELSE [inst |-> [inst EXCEPT !.Status = "Loading"], tapped |-> FALSE]

\* what the tick does to a started, not paused instance, given what HasUpdated
\* returned
TickBranch(inst, updated, prompt) ==
    IF updated THEN [inst |-> SetStatus(inst, Running), tapped |-> FALSE]
    ELSE IF prompt THEN [inst |-> inst, tapped |-> TRUE]
    ELSE [inst |-> SetStatus(inst, Ready), tapped |-> FALSE]

NoTick == [probed |-> FALSE, captured |-> FALSE, updated |-> FALSE,
           prompt |-> FALSE, before |-> Ready, tapped |-> FALSE, sent |-> FALSE]

\* one pass of the loop body: the instance after it, and what was done
TickInstance(inst, content, captureOK) ==
    IF TickSkips(inst)
    THEN [inst |-> inst, log |-> [NoTick EXCEPT !.before = inst.Status]]
    ELSE LET r == InstanceHasUpdated(inst, content, captureOK)
             i1 == [inst EXCEPT !.monitor = r.monitor]
             b == TickBranch(i1, r.updated, r.hasPrompt)
         IN  [inst |-> b.inst,
              log |-> [probed |-> TRUE, captured |-> captureOK,
                       updated |-> r.updated,
                       prompt |-> r.hasPrompt, before |-> inst.Status,
                       tapped |-> b.tapped,
                       sent |-> b.tapped /\ InstanceTapEnter(i1)]]

\* tickUpdateMetadataMessage: the loop over the list; the capture of each pane
\* succeeds or fails
Tick ==
    /\ \E cap \in [DOMAIN instances -> BOOLEAN] :
          LET r == [i \in DOMAIN instances |->
                       TickInstance(instances[i], panes[i], cap[i])]
          IN  /\ instances' = [i \in DOMAIN instances |-> r[i].inst]
              /\ lastTick' = [i \in DOMAIN instances |-> r[i].log]
    /\ UNCHANGED <<autoYes, panes, selectedIdx, outsideTicker>>

\* what a pane shows once the program runs: its output, or a prompt
LivePanes == Contents \ {<<>>}

\* the program of a live instance prints
InstanceOutput ==
    /\ \E i \in DOMAIN instances :
          /\ ~TickSkips(instances[i])
          /\ \E c \in LivePanes \ {panes[i]} : panes' = [panes EXCEPT ![i] = c]
    /\ lastTick' = <<>>
    /\ UNCHANGED <<autoYes, instances, selectedIdx, outsideTicker>>

\* Instance.Pause: only a started, not paused instance; the session is closed
InstancePause(inst) ==
    [inst EXCEPT !.Status = Paused, !.monitor = NoMonitor]

\* Instance.Resume: only a paused instance; the session is started again
InstanceResume(inst) ==
    [inst EXCEPT !.Status = Ready, !.monitor = newStatusMonitor]

\* keys.KeyPause on the selected instance; Pause may fail
KeyPause ==
    /\ selectedIdx \in DOMAIN instances
    /\ \E ok \in BOOLEAN :
          instances' = IF ok /\ ~TickSkips(instances[selectedIdx])
                       THEN [instances EXCEPT ![selectedIdx] = InstancePause(@)]
                       ELSE instances
    /\ lastTick' = <<>>
    /\ UNCHANGED <<autoYes, panes, selectedIdx, outsideTicker>>

\* keys.KeyResume on the selected instance; Resume may fail
KeyResume ==
    /\ selectedIdx \in DOMAIN instances
    /\ \E ok \in BOOLEAN :
          /\ instances' =
                IF ok /\ InstanceStarted(instances[selectedIdx])
                      /\ InstancePaused(instances[selectedIdx])
                THEN [instances EXCEPT ![selectedIdx] = InstanceResume(@)]
                ELSE instances
          /\ panes' = IF instances' # instances
                      THEN [panes EXCEPT ![selectedIdx] = <<"out">>] ELSE panes
    /\ lastTick' = <<>>
    /\ UNCHANGED <<autoYes, selectedIdx, outsideTicker>>

\* keys.KeyUp
KeyUp ==
    /\ selectedIdx > 1
    /\ selectedIdx' = selectedIdx - 1
    /\ lastTick' = <<>>
    /\ UNCHANGED <<autoYes, instances, panes, outsideTicker>>

\* keys.KeyDown
KeyDown ==
    /\ selectedIdx < Len(instances)
    /\ selectedIdx' = selectedIdx + 1
    /\ lastTick' = <<>>
    /\ UNCHANGED <<autoYes, instances, panes, outsideTicker>>

\* the values the session's variables keep in the ticker model
SessionIdle ==
    /\ t = NewTmuxSession(<<"a">>)
    /\ mux = {}
    /\ InitSession

\* the list after newHome and the operator's first keys: up to NumInst instances,
\* loaded ones started, the last one possibly still being named
InitTick ==
    /\ SessionIdle /\ MonIdle /\ AppIdle /\ MainIdle /\ UIIdle
    /\ autoYes \in BOOLEAN
    /\ \E n \in 0..NumInst :
          /\ instances \in [1..n ->
                {StartedInstance(st, a) : st \in {Running, Ready, Paused},
                                          a \in {autoYes, TRUE}} \cup {NewInstance}]
          /\ \A i \in 1..n : ~instances[i].started => i = n
          /\ panes = [i \in 1..n |-> IF instances[i].started THEN <<"out">> ELSE <<>>]
          /\ selectedIdx = IF n = 0 THEN 0 ELSE n
    /\ lastTick = <<>>

NextTick ==
    \/ Tick
    \/ InstanceOutput
    \/ KeyPause
    \/ KeyResume
    \/ KeyUp
    \/ KeyDown

SpecTick == InitTick /\ [][NextTick]_vars

\* C1: a tick takes, for every started and not paused instance, exactly the
\* branch HasUpdated selects (Running; TapEnter with the status kept; Ready),
\* and leaves every unstarted or paused instance alone
C1_TickBranches ==
    \A i \in DOMAIN lastTick :
       LET l == lastTick[i]
           inst == instances[i]
       IN  /\ l.probed <=> (inst.started /\ l.before # Paused)
           /\ l.probed =>
                 /\ l.updated => (inst.Status = Running /\ ~l.tapped)
                 /\ (~l.updated /\ l.prompt) =>
                        (l.tapped /\ inst.Status = l.before)
                 /\ (~l.updated /\ ~l.prompt) =>
                        (inst.Status = Ready /\ ~l.tapped)
           /\ ~l.probed =>
                 (inst.Status = l.before /\ ~l.tapped /\ ~l.sent)

C1_Witness ==
    /\ Len(lastTick) = NumInst
    /\ \E i \in DOMAIN lastTick :
          lastTick[i].probed /\ ~lastTick[i].updated /\ lastTick[i].prompt
    /\ \E i \in DOMAIN lastTick : ~lastTick[i].probed

\* C2 as stated: with auto_yes false a detected prompt is never answered and the
\* status remains Ready
C2_NoAutoYesStaysReady ==
    \A i \in DOMAIN lastTick :
       (~instances[i].AutoYes /\ lastTick[i].probed /\ lastTick[i].prompt) =>
           (~lastTick[i].sent /\ instances[i].Status = Ready)

\* C2 amended: the ticker sends Enter only to instances with auto_yes, on an
\* unchanged pane showing a prompt; without auto_yes such a tick sends nothing
\* and leaves the status as it was
C2_NoAutoYesNeverTapped ==
    \A i \in DOMAIN lastTick :
       LET l == lastTick[i]
       IN  /\ l.sent => (instances[i].AutoYes /\ l.probed /\ ~l.updated /\ l.prompt)
           /\ (~instances[i].AutoYes /\ l.probed /\ ~l.updated /\ l.prompt) =>
                  (~l.sent /\ instances[i].Status = l.before)
           /\ (instances[i].AutoYes /\ l.probed /\ ~l.updated /\ l.prompt) => l.sent

C2_Witness ==
    \E i \in DOMAIN lastTick :
       /\ ~instances[i].AutoYes /\ lastTick[i].probed /\ ~lastTick[i].updated
       /\ lastTick[i].prompt /\ instances[i].Status = Running

(* ------------------- one monitor, probed call after call ----------------- *)

\* the panes the probed session shows: also a prompt below earlier output
MonitorPanes == Contents \cup {<<"out", "Do you want">>}

\* the program in the pane prints
MonitorOutput ==
    /\ \E c \in MonitorPanes \ {monPane} : monPane' = c
    /\ UNCHANGED <<mon, monLog, tmuxVars, tickVars, appVars, mainVars, uiVars>>

\* one HasUpdated call; the capture of the pane succeeds or fails
MonitorProbe ==
    /\ \E captureOK \in BOOLEAN :
          LET r == HasUpdated(mon, monPane, captureOK)
          IN  /\ mon' = r.monitor
              /\ monLog' = [called |-> TRUE, captured |-> captureOK,
                            content |-> monPane,
                            before |-> IF monLog.captured THEN {monLog.content}
                                       ELSE monLog.before,
                            updated |-> r.updated, hasPrompt |-> r.hasPrompt]
    /\ UNCHANGED <<monPane, tmuxVars, tickVars, appVars, mainVars, uiVars>>

\* Restore gives the session a fresh monitor: no call was made on it yet
MonitorRestore ==
    /\ mon' = newStatusMonitor
    /\ monLog' = NoProbe
    /\ UNCHANGED <<monPane, tmuxVars, tickVars, appVars, mainVars, uiVars>>

InitMonitor ==
    /\ SessionIdle /\ TickIdle /\ AppIdle /\ MainIdle /\ UIIdle
    /\ mon = newStatusMonitor
    /\ monPane \in MonitorPanes
    /\ monLog = NoProbe

NextMonitor ==
    \/ MonitorOutput
    \/ MonitorProbe
    \/ MonitorRestore

SpecMonitor == InitMonitor /\ [][NextMonitor]_vars

\* C11: a call that captured the pane returns updated exactly when the content
\* differs from the content of the previous capturing call on this monitor (or
\* there was none), it records the new hash, and has_prompt is true exactly
\* when the content contains "Do you want"
C11_HasUpdatedOncePerChange ==
    (monLog.called /\ monLog.captured) =>
        /\ monLog.updated <=> (monLog.content \notin monLog.before)
        /\ mon.prevOutputHash = hash(monLog.content)
        /\ monLog.hasPrompt <=> ContainsPrompt(monLog.content)

C11_Witness ==
    /\ monLog.called /\ monLog.captured /\ monLog.before = {monLog.content}
    /\ ~monLog.updated /\ monLog.hasPrompt

\* C12: every started, not paused instance has status Running or Ready, before
\* and after every tick and key
C12_LiveStatusRunningOrReady ==
    \A i \in DOMAIN instances :
       (instances[i].started /\ ~InstancePaused(instances[i])) =>
           instances[i].Status \in {Running, Ready}

C12_Witness ==
    /\ \E i \in DOMAIN lastTick :
          lastTick[i].probed /\ lastTick[i].before = Ready
          /\ instances[i].Status = Running
    /\ \E i \in DOMAIN lastTick :
          lastTick[i].probed /\ lastTick[i].before = Running
          /\ instances[i].Status = Ready

\* C13: a tick whose capture of an instance's pane failed leaves the status of
\* that instance as it was, and still handles every other instance
C13_CaptureFailureKeepsStatus ==
    \A i \in DOMAIN lastTick :
       (lastTick[i].probed /\ ~lastTick[i].captured) =>
           /\ instances[i].Status = lastTick[i].before
           /\ \A j \in DOMAIN lastTick :
                 lastTick[j].probed <=>
                    (instances[j].started /\ lastTick[j].before # Paused)

(* --------------------------- the key handlers --------------------------- *)

GlobalInstanceLimit == 10

TitleLimit == 32

\* session.NewInstance with Title "": not started; finalized counts the calls
\* of the finalizer list.AddInstance returned for the instance
NewInstanceUntitled ==
    [Title |-> <<>>, started |-> FALSE, Status |-> Ready, AutoYes |-> FALSE,
     monitor |-> NoMonitor, finalized |-> 0]

\* m.newInstanceFinalizer(): the finalizer of the instance added last
newInstanceFinalizer(list) == [list EXCEPT ![Len(list)].finalized = @ + 1]

\* the record storage keeps of an instance
Record(inst) == [Title |-> inst.Title, paused |-> inst.Status = Paused]

\* the persistable projection of a list
Persisted(list) == [i \in 1..Len(list) |-> Record(list[i])]

\* Storage.LoadInstances and newHome's loop: a started instance per record
FromRecord(rec, auto) ==
    [Title |-> rec.Title, started |-> TRUE,
     Status |-> IF rec.paused THEN Paused ELSE Ready, AutoYes |-> auto,
     monitor |-> IF rec.paused THEN NoMonitor ELSE newStatusMonitor,
     finalized |-> 1]

\* Storage.SaveInstances(list) on the storage st; ioOK is the result of the write
SaveInstances(st, list, ioOK) ==
    [stored |-> IF ioOK THEN Persisted(list) ELSE st,
     err |-> IF ioOK THEN "" ELSE "save failed"]

\* Storage.DeleteInstance(title)
DeleteInstance(st, title, ioOK) ==
    IF ioOK /\ \E k \in 1..Len(st) : st[k].Title = title
    THEN [stored |-> SelectSeq(st, LAMBDA r : r.Title # title), err |-> ""]
    ELSE [stored |-> st, err |-> "delete failed"]

\* List.Kill: the selected instance is killed and leaves the list
ListKill(list, sel) ==
    IF sel \in 1..Len(list)
    THEN LET rest == [i \in 1..(Len(list) - 1) |->
                         IF i < sel THEN list[i] ELSE list[i + 1]]
         IN  [instances |-> rest,
              selectedIdx |-> IF sel > Len(rest) THEN Len(rest) ELSE sel]
    ELSE [instances |-> list, selectedIdx |-> sel]

\* a SetTitle that does not look at the length of the title
SetTitleAnyLength(inst, title, others) ==
    IF inst.started THEN "cannot change title of a started instance"
    ELSE IF title = <<>> THEN "title cannot be empty"
    ELSE IF title \in others THEN "title not unique"
    ELSE ""

\* Instance.SetTitle: not after Start; the title nonempty, within the limit, unique
SetTitleErr(inst, title, others) ==
    IF inst.started THEN "cannot change title of a started instance"
    ELSE IF title = <<>> THEN "title cannot be empty"
    ELSE IF Len(title) > TitleLimit THEN "title too long"
    ELSE IF title \in others THEN "title not unique"
    ELSE ""

\* the titles of the other instances of the list
OtherTitles(list, k) == {list[i].Title : i \in (1..Len(list)) \ {k}}

\* the sessions the instances of the list hold on the tmux server
LiveNames(list) ==
    {toClaudeSquadTmuxName(list[i].Title) :
        i \in {j \in 1..Len(list) : list[j].started /\ list[j].Status # Paused}}

\* a Start that never finds the session name taken
SessionNeverExists(list, name) == FALSE

\* TmuxSession.Start: DoesSessionExist on the sanitized name, the sessions of
\* the server being those of the live instances
SessionExists(list, name) == name \in LiveNames(list)

\* Instance.Start(true) fails when the setup fails or the session name is taken
InstanceStartErr(list, k, ok) ==
    IF ok /\ ~SessionExists(list, toClaudeSquadTmuxName(list[k].Title))
    THEN "" ELSE "start failed"

\* Instance.Start(true) succeeded
InstanceStart(inst) ==
    [inst EXCEPT !.started = TRUE, !.Status = Ready, !.monitor = newStatusMonitor]

\* the titles passed to a SaveInstances call
SaveArg(list) == <<[i \in 1..Len(list) |-> list[i].Title]>>

KeyLog(key, err) ==
    [key |-> key, err |-> err, lenBefore |-> Len(instances), saveArg |-> <<>>]

\* the instance under creation: the last of the list
LastIdx == Len(instances)

\* a ctrl+c that leaves the instance under creation in the list
CancelNewKeeps(list, sel) == [instances |-> list, selectedIdx |-> sel]

\* stateNew, ctrl+c: back to the default state, the selected instance is killed
CancelNew(list, sel) == ListKill(list, sel)

NewCtrlC ==
    /\ ~quit /\ state = "new" /\ Len(instances) > 0
    /\ state' = "default"
    /\ promptAfterName' = FALSE
    /\ instances' = CancelNew(instances, selectedIdx).instances
    /\ selectedIdx' = CancelNew(instances, selectedIdx).selectedIdx
    /\ appLog' = KeyLog("ctrl+c", "")
    /\ UNCHANGED <<stored, quit, autoYes, panes, lastTick, tmuxVars, monVars, mainVars>>

\* stateNew, Esc: the selected instance is killed
NewEsc ==
    /\ ~quit /\ state = "new" /\ Len(instances) > 0
    /\ state' = "default"
    /\ instances' = ListKill(instances, selectedIdx).instances
    /\ selectedIdx' = ListKill(instances, selectedIdx).selectedIdx
    /\ appLog' = KeyLog("esc", "")
    /\ UNCHANGED <<promptAfterName, stored, quit, autoYes, panes, lastTick,
                   tmuxVars, monVars, mainVars>>

\* a failed Start that leaves the instance in the list
StartFailedKeeps(list, sel) == [instances |-> list, selectedIdx |-> sel]

\* stateNew, Enter, Start failed: m.list.Kill()
StartFailed(list, sel) == ListKill(list, sel)

\* stateNew, Enter: title check, Start, SaveInstances, then the next state
NewEnter ==
    /\ ~quit /\ state = "new" /\ Len(instances) > 0
    /\ \E startOK \in BOOLEAN, ioOK \in BOOLEAN :
          LET inst == instances[LastIdx]
              started == [instances EXCEPT ![LastIdx] = InstanceStart(@)]
              sv == SaveInstances(stored, started, ioOK)
          IN  IF Len(inst.Title) = 0
              THEN /\ appLog' = KeyLog("enter", "title cannot be empty")
                   /\ UNCHANGED <<state, promptAfterName, stored, instances,
                                  selectedIdx>>
              ELSE IF InstanceStartErr(instances, LastIdx, startOK) # ""
              THEN /\ instances' = StartFailed(instances, selectedIdx).instances
                   /\ selectedIdx' = StartFailed(instances, selectedIdx).selectedIdx
                   /\ state' = "default"
                   /\ appLog' = KeyLog("enter", "start failed")
                   /\ UNCHANGED <<promptAfterName, stored>>
              ELSE IF sv.err # ""
              THEN /\ instances' = started
                   /\ appLog' = [KeyLog("enter", sv.err) EXCEPT
                                    !.saveArg = SaveArg(started)]
                   /\ UNCHANGED <<state, promptAfterName, stored, selectedIdx>>
              ELSE /\ instances' = newInstanceFinalizer(
                                      [newInstanceFinalizer(started)
                                          EXCEPT ![LastIdx].AutoYes =
                                                     IF autoYes THEN TRUE ELSE @])
                   /\ stored' = sv.stored
                   /\ state' = IF promptAfterName THEN "prompt" ELSE "default"
                   /\ promptAfterName' = FALSE
                   /\ appLog' = [KeyLog("enter", "") EXCEPT
                                    !.saveArg = SaveArg(started)]
                   /\ UNCHANGED selectedIdx
    /\ UNCHANGED <<quit, autoYes, panes, lastTick, tmuxVars, monVars, mainVars>>

\* an edit that sets the title also when SetTitle returned an error
EditTitleAnyway(key, title) ==
    LET e == SetTitleErr(instances[LastIdx], title, OtherTitles(instances, LastIdx))
    IN  /\ instances' = [instances EXCEPT ![LastIdx].Title = title]
        /\ appLog' = KeyLog(key, e)

\* a title edit of the instance under creation: SetTitle, or its error
EditTitle(key, title) ==
    LET e == SetTitleErr(instances[LastIdx], title, OtherTitles(instances, LastIdx))
    IN  /\ instances' = IF e = "" THEN [instances EXCEPT ![LastIdx].Title = title]
                        ELSE instances
        /\ appLog' = KeyLog(key, e)

\* stateNew, a rune message: it may carry several runes
NewRunes(runes) ==
    /\ ~quit /\ state = "new" /\ Len(instances) > 0
    /\ IF Len(instances[LastIdx].Title) >= TitleLimit
       THEN /\ appLog' = KeyLog("runes", "title cannot be longer than 32 characters")
            /\ UNCHANGED instances
       ELSE EditTitle("runes", instances[LastIdx].Title \o runes)
    /\ UNCHANGED <<state, promptAfterName, stored, quit, autoYes, panes,
                   selectedIdx, lastTick, tmuxVars, monVars, mainVars>>

\* stateNew, backspace
NewBackspace ==
    /\ ~quit /\ state = "new" /\ Len(instances) > 0
    /\ LET title == instances[LastIdx].Title
       IN  IF Len(title) = 0
           THEN /\ appLog' = KeyLog("backspace", "")
                /\ UNCHANGED instances
           ELSE EditTitle("backspace", SubSeq(title, 1, Len(title) - 1))
    /\ UNCHANGED <<state, promptAfterName, stored, quit, autoYes, panes,
                   selectedIdx, lastTick, tmuxVars, monVars, mainVars>>

\* stateNew, space
NewSpace ==
    /\ ~quit /\ state = "new" /\ Len(instances) > 0
    /\ EditTitle("space", instances[LastIdx].Title \o <<" ">>)
    /\ UNCHANGED <<state, promptAfterName, stored, quit, autoYes, panes,
                   selectedIdx, lastTick, tmuxVars, monVars, mainVars>>

\* a check that lets one more instance in
AtLimitOffByOne(list) == Len(list) > GlobalInstanceLimit

\* the list is full: NumInstances() >= GlobalInstanceLimit
AtLimit(list) == Len(list) >= GlobalInstanceLimit

\* stateDefault, 'n' (prompt = FALSE) or 'N' (prompt = TRUE)
DefaultNew(prompt) ==
    /\ ~quit /\ state = "default"
    /\ \E newOK \in BOOLEAN :
          IF AtLimit(instances)
          THEN /\ appLog' = KeyLog("new", "you can't create more than 10 instances")
               /\ UNCHANGED <<state, promptAfterName, instances, selectedIdx>>
          ELSE IF ~newOK
          THEN /\ appLog' = KeyLog("new", "new instance failed")
               /\ UNCHANGED <<state, promptAfterName, instances, selectedIdx>>
          ELSE /\ instances' = Append(instances, NewInstanceUntitled)
               /\ selectedIdx' = Len(instances) + 1
               /\ state' = "new"
               /\ promptAfterName' = IF prompt THEN TRUE ELSE promptAfterName
               /\ appLog' = KeyLog("new", "")
    /\ UNCHANGED <<stored, quit, autoYes, panes, lastTick, tmuxVars, monVars, mainVars>>

\* a handleQuit that quits whatever SaveInstances returned
QuitsAnyway(err) == TRUE

\* handleQuit returns tea.Quit when SaveInstances returned no error
QuitsAfterSave(err) == err = ""

\* stateDefault, 'q' or ctrl+c: handleQuit
DefaultQuit ==
    /\ ~quit /\ state = "default"
    /\ \E ioOK \in BOOLEAN :
          LET sv == SaveInstances(stored, instances, ioOK)
          IN  /\ stored' = sv.stored
              /\ quit' = QuitsAfterSave(sv.err)
              /\ appLog' = [KeyLog("quit", sv.err) EXCEPT
                               !.saveArg = SaveArg(instances)]
    /\ UNCHANGED <<state, promptAfterName, instances, selectedIdx, autoYes,
                   panes, lastTick, tmuxVars, monVars, mainVars>>

\* a kill that goes on whatever DeleteInstance returned
KillsAnyway(err) == TRUE

\* the instance is killed when DeleteInstance returned no error
KillsAfterDelete(err) == err = ""

\* stateDefault, kill: DeleteInstance first, then List.Kill
DefaultKill ==
    /\ ~quit /\ state = "default"
    /\ selectedIdx \in 1..Len(instances)
    /\ \E ioOK \in BOOLEAN :
          LET d == DeleteInstance(stored, instances[selectedIdx].Title, ioOK)
          IN  IF ~KillsAfterDelete(d.err)
              THEN /\ appLog' = KeyLog("kill", d.err)
                   /\ UNCHANGED <<stored, instances, selectedIdx>>
              ELSE /\ stored' = d.stored
                   /\ instances' = ListKill(instances, selectedIdx).instances
                   /\ selectedIdx' = ListKill(instances, selectedIdx).selectedIdx
                   /\ appLog' = KeyLog("kill", "")
    /\ UNCHANGED <<state, promptAfterName, quit, autoYes, panes, lastTick,
                   tmuxVars, monVars, mainVars>>

\* the selected instance after Pause, or the list as it was when Pause fails
PauseSelected(list, sel, ok) ==
    IF ok /\ ~TickSkips(list[sel])
    THEN [list EXCEPT ![sel] = InstancePause(@)] ELSE list

\* the selected instance after Resume, or the list as it was when Resume fails
ResumeSelected(list, sel, ok) ==
    IF ok /\ InstanceStarted(list[sel]) /\ InstancePaused(list[sel])
       /\ ~SessionExists(list, toClaudeSquadTmuxName(list[sel].Title))
    THEN [list EXCEPT ![sel] = InstanceResume(@)] ELSE list

\* stateDefault, pause: Pause, then the preview
DefaultPause ==
    /\ ~quit /\ state = "default"
    /\ selectedIdx \in 1..Len(instances)
    /\ \E ok \in BOOLEAN :
          /\ instances' = PauseSelected(instances, selectedIdx, ok)
          /\ appLog' = KeyLog("pause", IF instances' = instances
                                       THEN "pause failed" ELSE "")
    /\ UNCHANGED <<state, promptAfterName, stored, quit, selectedIdx, autoYes,
                   panes, lastTick, tmuxVars, monVars, mainVars>>

\* stateDefault, resume
DefaultResume ==
    /\ ~quit /\ state = "default"
    /\ selectedIdx \in 1..Len(instances)
    /\ \E ok \in BOOLEAN :
          /\ instances' = ResumeSelected(instances, selectedIdx, ok)
          /\ appLog' = KeyLog("resume", IF instances' = instances
                                        THEN "resume failed" ELSE "")
    /\ UNCHANGED <<state, promptAfterName, stored, quit, selectedIdx, autoYes,
                   panes, lastTick, tmuxVars, monVars, mainVars>>

\* stateDefault, up and down
DefaultUpDown ==
    /\ ~quit /\ state = "default"
    /\ \/ selectedIdx > 1 /\ selectedIdx' = selectedIdx - 1
       \/ selectedIdx < Len(instances) /\ selectedIdx' = selectedIdx + 1
    /\ appLog' = KeyLog("move", "")
    /\ UNCHANGED <<state, promptAfterName, stored, quit, instances, autoYes,
                   panes, lastTick, tmuxVars, monVars, mainVars>>

\* statePrompt: a key goes to the overlay; when it closes, the prompt is sent if
\* it was submitted, and the state is default again
PromptKey ==
    /\ ~quit /\ state = "prompt"
    /\ \E shouldClose \in BOOLEAN, submitted \in BOOLEAN, sendOK \in BOOLEAN :
          IF ~shouldClose
          THEN /\ appLog' = KeyLog("overlay", "") /\ UNCHANGED state
          ELSE IF submitted /\ selectedIdx \notin 1..Len(instances)
          THEN /\ appLog' = KeyLog("overlay submit", "") /\ UNCHANGED state
          ELSE IF submitted /\ ~sendOK
          THEN /\ appLog' = KeyLog("overlay submit", "send failed")
               /\ UNCHANGED state
          ELSE /\ appLog' = KeyLog(IF submitted THEN "overlay submit"
                                   ELSE "overlay cancel", "")
               /\ state' = "default"
    /\ UNCHANGED <<promptAfterName, stored, quit, instances, selectedIdx, autoYes,
                   panes, lastTick, tmuxVars, monVars, mainVars>>

(* ------------------------ the UI under its keys ------------------------- *)

\* the persisted lists the UI starts from
LoadedLists ==
    {<<>>, <<[Title |-> <<"b">>, paused |-> FALSE]>>,
     <<[Title |-> <<"b">>, paused |-> TRUE]>>}

\* the rune messages the operator sends: one rune, or several at once
RuneMsgs == {<<"a">>, <<"b">>, <<"a", "b">>}

\* the titles the operator gets to while typing
TypedTitles == {<<>>, <<"a">>, <<"b">>, <<"a", " ">>, <<"a", "b">>}

\* newHome: the saved instances are loaded into the list
InitApp ==
    /\ SessionIdle /\ MonIdle /\ MainIdle /\ UIIdle
    /\ autoYes \in BOOLEAN
    /\ stored \in LoadedLists
    /\ instances = [i \in 1..Len(stored) |-> FromRecord(stored[i], autoYes)]
    /\ selectedIdx = IF Len(stored) = 0 THEN 0 ELSE 1
    /\ panes = <<>> /\ lastTick = <<>>
    /\ state = "default" /\ promptAfterName = FALSE
    /\ quit = FALSE /\ appLog = NoKey

\* the title under creation would stay among the typed titles
Typing(suffix) ==
    /\ Len(instances) > 0
    /\ \/ instances[LastIdx].Title \o suffix \in TypedTitles
       \/ Len(instances[LastIdx].Title) >= TitleLimit

NextApp ==
    \/ NewCtrlC /\ Quiet
    \/ NewEsc /\ Quiet
    \/ NewEnter /\ Quiet
    \/ \E runes \in RuneMsgs : Typing(runes) /\ NewRunes(runes) /\ Quiet
    \/ NewBackspace /\ Quiet
    \/ Typing(<<" ">>) /\ NewSpace /\ Quiet
    \/ Len(instances) < NumInst /\ \E prompt \in BOOLEAN : DefaultNew(prompt) /\ Quiet
    \/ DefaultQuit /\ Quiet
    \/ DefaultKill /\ Quiet
    \/ DefaultPause /\ Quiet
    \/ DefaultResume /\ Quiet
    \/ DefaultUpDown /\ Quiet
    \/ PromptKey /\ Quiet

SpecApp == InitApp /\ [][NextApp]_vars

\* C16: no SaveInstances call gets a list holding an instance with an empty
\* title, and no persisted record has an empty title
C16_NoEmptyTitleSaved ==
    /\ appLog.saveArg # <<>> =>
          \A k \in 1..Len(appLog.saveArg[1]) : appLog.saveArg[1][k] # <<>>
    /\ \A k \in 1..Len(stored) : stored[k].Title # <<>>

C16_Witness ==
    /\ appLog.key = "quit" /\ appLog.err = ""
    /\ appLog.saveArg # <<>> /\ Len(appLog.saveArg[1]) = NumInst

\* C17: after a successful submit, pause, resume, kill or quit the persisted
\* list matches the list in memory: same titles, same paused status
C17_SnapshotAfterEveryOperation ==
    (appLog.key \in {"enter", "pause", "resume", "kill", "quit"}
        /\ appLog.err = "") => stored = Persisted(instances)

(* ------------------------ the UI with a full list ----------------------- *)

\* the title of the k-th loaded instance: k times "x"
LoadedTitle(k) == [j \in 1..k |-> "x"]

\* newHome with nine or ten saved instances
InitLimit ==
    /\ SessionIdle /\ MonIdle /\ MainIdle /\ UIIdle
    /\ autoYes = FALSE
    /\ \E n \in {GlobalInstanceLimit - 1, GlobalInstanceLimit} :
          stored = [i \in 1..n |-> [Title |-> LoadedTitle(i), paused |-> FALSE]]
    /\ instances = [i \in 1..Len(stored) |-> FromRecord(stored[i], autoYes)]
    /\ selectedIdx = 1
    /\ panes = <<>> /\ lastTick = <<>>
    /\ state = "default" /\ promptAfterName = FALSE
    /\ quit = FALSE /\ appLog = NoKey

NextLimit ==
    \/ NewCtrlC /\ Quiet
    \/ NewEsc /\ Quiet
    \/ NewEnter /\ Quiet
    \/ \E runes \in RuneMsgs : Typing(runes) /\ NewRunes(runes) /\ Quiet
    \/ NewBackspace /\ Quiet
    \/ \E prompt \in BOOLEAN : DefaultNew(prompt) /\ Quiet
    \/ AtLimit(instances) /\ DefaultKill /\ Quiet
    \/ DefaultUpDown /\ Quiet
    \/ DefaultQuit /\ Quiet
    \/ PromptKey /\ Quiet

SpecLimit == InitLimit /\ [][NextLimit]_vars

\* C14: the list never holds more than GlobalInstanceLimit instances, the
\* loaded ones and the one under creation included; 'new' or 'prompt' pressed
\* with a full list returns an error and adds nothing
C14_ListWithinLimit ==
    /\ Len(instances) <= GlobalInstanceLimit
    /\ (appLog.key = "new" /\ appLog.lenBefore >= GlobalInstanceLimit) =>
          /\ appLog.err # ""
          /\ Len(instances) = appLog.lenBefore
          /\ state = "default"

C14_Witness ==
    /\ appLog.key = "new" /\ appLog.lenBefore = GlobalInstanceLimit
    /\ appLog.err # ""
    /\ \E k \in 1..Len(instances) : instances[k].Title = <<"a">>

(* ------------------------ the UI typing a long title -------------------- *)

\* rune messages of one, two and three runes
TitleRunes == {<<"a">>, <<"a", "a">>, <<"a", "a", "a">>}

\* the title under creation
TitleInProgress == instances[LastIdx].Title

InitTitle ==
    /\ SessionIdle /\ MonIdle /\ MainIdle /\ UIIdle
    /\ autoYes = FALSE
    /\ stored = <<>> /\ instances = <<>> /\ selectedIdx = 0
    /\ panes = <<>> /\ lastTick = <<>>
    /\ state = "default" /\ promptAfterName = FALSE
    /\ quit = FALSE /\ appLog = NoKey

NextTitle ==
    \/ Len(instances) = 0 /\ \E prompt \in BOOLEAN : DefaultNew(prompt) /\ Quiet
    \/ \E runes \in TitleRunes :
          /\ Len(instances) > 0
          /\ \A k \in 1..Len(TitleInProgress) : TitleInProgress[k] = "a"
          /\ NewRunes(runes) /\ Quiet
    \/ Len(instances) > 0 /\ Len(TitleInProgress) >= TitleLimit - 2 /\ NewSpace /\ Quiet
    \/ NewBackspace /\ Quiet
    \/ NewCtrlC /\ Quiet

SpecTitle == InitTitle /\ [][NextTitle]_vars

C15_WitnessFull ==
    /\ state = "new" /\ Len(instances) > 0
    /\ appLog.key \in {"runes", "space"} /\ appLog.err = ""
    /\ Len(instances[LastIdx].Title) = TitleLimit

(* --------------------------- the root command --------------------------- *)

\* daemon.StopDaemon: the running daemon is signalled and its PID file
\* removed; when that fails the daemon is left as it was
StopDaemon(running, ok) ==
    IF ok THEN [daemon |-> FALSE, err |-> ""]
    ELSE [daemon |-> running, err |-> "failed to stop daemon"]

\* daemon.LaunchDaemon: a detached daemon process is started
LaunchDaemon(running, ok) ==
    IF ok THEN [daemon |-> TRUE, err |-> ""]
    ELSE [daemon |-> running, err |-> "failed to launch daemon"]

\* the flags are read, LaunchDaemon is deferred under auto-yes, and the
\* daemon is stopped; an error of StopDaemon is logged
MainStopDaemon ==
    /\ mainPc = "start" /\ ~resetFlag
    /\ \E ok \in BOOLEAN :
          /\ daemon' = StopDaemon(daemon, ok).daemon
          /\ mainLog' = Append(mainLog, "StopDaemon")
    /\ mainPc' = "run"
    /\ UNCHANGED <<uiVars, resetFlag, tmuxVars, tickVars, monVars, appVars>>

\* app.Run: newHome loads the saved instances; a failure is os.Exit(1)
MainNewHome ==
    /\ mainPc = "run"
    /\ \E loadOK \in BOOLEAN :
          IF loadOK
          THEN /\ instances' = [i \in 1..Len(stored) |->
                                   FromRecord(stored[i], autoYes)]
               /\ selectedIdx' = IF Len(stored) = 0 THEN 0 ELSE 1
               /\ mainLog' = Append(mainLog, "newHome")
               /\ mainPc' = "ui"
          ELSE /\ mainLog' = Append(mainLog, "os.Exit")
               /\ mainPc' = "exited"
               /\ UNCHANGED <<instances, selectedIdx>>
    /\ UNCHANGED <<uiVars, resetFlag, daemon, autoYes, panes, lastTick, tmuxVars,
                   monVars, appVars>>

\* p.Run returns: after tea.Quit, or with an error of its own
MainRunReturns ==
    /\ mainPc = "ui"
    /\ mainLog' = Append(mainLog, IF quit THEN "returned" ELSE "failed")
    /\ mainPc' = "returned"
    /\ UNCHANGED <<uiVars, resetFlag, daemon, tmuxVars, tickVars, monVars, appVars>>

\* the deferred function: LaunchDaemon under auto-yes, its error logged
MainDeferred ==
    /\ mainPc = "returned"
    /\ IF autoYes
       THEN \E ok \in BOOLEAN :
               /\ daemon' = LaunchDaemon(daemon, ok).daemon
               /\ mainLog' = Append(mainLog, "LaunchDaemon")
       ELSE UNCHANGED <<daemon, mainLog>>
    /\ mainPc' = "exited"
    /\ UNCHANGED <<uiVars, resetFlag, tmuxVars, tickVars, monVars, appVars>>

\* the operator runs the command again: a new process, the same files
MainInvoke ==
    /\ mainPc = "exited" /\ ~resetFlag
    /\ mainPc' = "start" /\ mainLog' = <<>>
    /\ autoYes' \in BOOLEAN
    /\ instances' = <<>> /\ selectedIdx' = 0
    /\ state' = "default" /\ promptAfterName' = FALSE
    /\ quit' = FALSE /\ appLog' = NoKey
    /\ UNCHANGED <<uiVars, resetFlag, daemon, stored, panes, lastTick, tmuxVars, monVars>>

InitMain ==
    /\ SessionIdle /\ MonIdle /\ AppIdle /\ UIIdle
    /\ autoYes \in BOOLEAN
    /\ instances = <<>> /\ selectedIdx = 0 /\ panes = <<>> /\ lastTick = <<>>
    /\ mainPc = "start" /\ resetFlag = FALSE /\ daemon = FALSE /\ mainLog = <<>>

\* the keys of the operator while the UI runs
UIRuns == mainPc = "ui"

NextMain ==
    \/ MainStopDaemon
    \/ MainNewHome
    \/ MainRunReturns
    \/ MainDeferred
    \/ MainInvoke
    \/ UIRuns /\ Len(instances) < NumInst /\ DefaultNew(FALSE) /\ Quiet
    \/ UIRuns /\ Typing(<<"a">>) /\ NewRunes(<<"a">>) /\ Quiet
    \/ UIRuns /\ NewEnter /\ Quiet
    \/ UIRuns /\ NewCtrlC /\ Quiet
    \/ UIRuns /\ DefaultKill /\ Quiet
    \/ UIRuns /\ DefaultQuit /\ Quiet

SpecMain == InitMain /\ [][NextMain]_vars

\* the position of the first occurrence of e in the log, 0 when there is none
FirstAt(log, e) ==
    IF \E i \in 1..Len(log) : log[i] = e
    THEN CHOOSE i \in 1..Len(log) :
            log[i] = e /\ \A j \in 1..(i - 1) : log[j] # e
    ELSE 0

\* C18: StopDaemon is called before the UI is created and before any
\* instance is loaded; LaunchDaemon is called only under auto-yes and only
\* after app.Run returned; after a normal quit the persisted list is the
\* list in memory, so the daemon is launched after the list was flushed
C18_DaemonOrdering ==
    /\ (UIRuns \/ instances # <<>>) =>
          /\ FirstAt(mainLog, "newHome") > 0
          /\ FirstAt(mainLog, "StopDaemon") \in 1..(FirstAt(mainLog, "newHome") - 1)
    /\ FirstAt(mainLog, "LaunchDaemon") > 0 =>
          /\ autoYes
          /\ \E j \in 1..(FirstAt(mainLog, "LaunchDaemon") - 1) :
                mainLog[j] \in {"returned", "failed"}
    /\ FirstAt(mainLog, "returned") > 0 =>
          /\ appLog.key = "quit" /\ appLog.err = ""
          /\ stored = Persisted(instances)

C18_Witness ==
    /\ mainPc = "exited" /\ daemon
    /\ FirstAt(mainLog, "returned") > 0
    /\ FirstAt(mainLog, "LaunchDaemon") > 0
    /\ Len(stored) > 0

\* C19: while the event loop of the UI runs no daemon process is running,
\* also when StopDaemon returned an error
C19_DaemonAndUIExclusive == UIRuns => ~daemon

(* ------------------------------- --reset -------------------------------- *)

\* the sessions a reset may find, in the order `tmux ls` lists them (by
\* name): one of another program, and three of this one, for the titles
\* "1", "12" and "a"
ListingOrder ==
    << <<"app">>, <<TmuxPrefix, "1">>, <<TmuxPrefix, "1", "2">>,
       <<TmuxPrefix, "a">> >>

ResetSessions == {ListingOrder[i] : i \in 1..Len(ListingOrder)}

\* `tmux ls`: one line per session, which starts with the session's name
TmuxLs(sessions) == SelectSeq(ListingOrder, LAMBDA n : n \in sessions)

IsDigit(c) == c \in {"0", "1", "2", "3", "4", "5", "6", "7", "8", "9"}

\* the longest run of digits at the head of the sequence
RECURSIVE DigitRun(_)
DigitRun(cs) ==
    IF cs # <<>> /\ IsDigit(Head(cs)) THEN <<Head(cs)>> \o DigitRun(Tail(cs))
    ELSE <<>>

\* regexp `^claudesquad-\d+` on the listing, FindAllString: without the
\* multi-line flag ^ is the start of the text, so only the first line can match
FindAllSessions(listing) ==
    IF listing # <<>> /\ Head(listing[1]) = TmuxPrefix
                      /\ DigitRun(Tail(listing[1])) # <<>>
    THEN << <<TmuxPrefix>> \o DigitRun(Tail(listing[1])) >>
    ELSE <<>>

\* the loop over the matches: kill-session on each, the first failure returned
RECURSIVE KillMatches(_, _, _)
KillMatches(sessions, matches, cmdOK) ==
    IF matches = <<>> THEN [mux |-> sessions, err |-> ""]
    ELSE LET k == KillSession(sessions, Head(matches), cmdOK)
         IN  IF k.ok THEN KillMatches(k.mux, Tail(matches), cmdOK)
             ELSE [mux |-> k.mux, err |-> "failed to kill tmux session"]

\* CleanupSessions: `tmux ls` exits with 1 when there is no session
CleanupSessions(sessions, lsOK, cmdOK) ==
    IF sessions = {} THEN [mux |-> sessions, err |-> ""]
    ELSE IF ~lsOK THEN [mux |-> sessions, err |-> "failed to list tmux sessions"]
    ELSE KillMatches(sessions, FindAllSessions(TmuxLs(sessions)), cmdOK)

\* the step of --reset that runs next, or the return with an error
ResetStep(err, next) ==
    /\ mainPc' = IF err = "" THEN next ELSE "exited"
    /\ mainLog' = Append(mainLog, IF err = "" THEN next ELSE "error")

\* storage.DeleteAllInstances
ResetStorage ==
    /\ resetFlag /\ mainPc = "start"
    /\ \E ioOK \in BOOLEAN :
          /\ stored' = IF ioOK THEN <<>> ELSE stored
          /\ ResetStep(IF ioOK THEN "" ELSE "failed to reset storage", "sessions")
    /\ UNCHANGED <<uiVars, resetFlag, daemon, state, promptAfterName, quit, appLog,
                   tmuxVars, tickVars, monVars>>

\* tmux.CleanupSessions
ResetSessionsStep ==
    /\ resetFlag /\ mainPc = "sessions"
    /\ \E lsOK \in BOOLEAN, cmdOK \in BOOLEAN :
          LET c == CleanupSessions(mux, lsOK, cmdOK)
          IN  /\ mux' = c.mux
              /\ ResetStep(c.err, "worktrees")
    /\ UNCHANGED <<uiVars, resetFlag, daemon, t, ptys, termRaw, chans, readers, monitors,
                   cancelled, timeoutCh, stdinPc, stdinOpen, detachErr, uiPc,
                   uiCh, uiHandled, phase, ret, lastRead, detachLog,
                   tickVars, monVars, appVars>>

\* git.CleanupWorktrees
ResetWorktrees ==
    /\ resetFlag /\ mainPc = "worktrees"
    /\ \E ok \in BOOLEAN :
          ResetStep(IF ok THEN "" ELSE "failed to cleanup worktrees", "daemon")
    /\ UNCHANGED <<uiVars, resetFlag, daemon, tmuxVars, tickVars, monVars, appVars>>

\* daemon.StopDaemon, its error logged; return nil
ResetStopDaemon ==
    /\ resetFlag /\ mainPc = "daemon"
    /\ \E ok \in BOOLEAN : daemon' = StopDaemon(daemon, ok).daemon
    /\ mainPc' = "exited"
    /\ mainLog' = Append(mainLog, "success")
    /\ UNCHANGED <<uiVars, resetFlag, tmuxVars, tickVars, monVars, appVars>>

\* --reset with what earlier runs left: saved instances, sessions, a daemon
InitReset ==
    /\ t = NewTmuxSession(<<"a">>) /\ InitSession
    /\ mux \in SUBSET ResetSessions
    /\ TickIdle /\ MonIdle /\ UIIdle
    /\ state = "default" /\ promptAfterName = FALSE
    /\ stored \in LoadedLists
    /\ quit = FALSE /\ appLog = NoKey
    /\ mainPc = "start" /\ resetFlag = TRUE /\ daemon \in BOOLEAN
    /\ mainLog = <<>>

NextReset ==
    \/ ResetStorage
    \/ ResetSessionsStep
    \/ ResetWorktrees
    \/ ResetStopDaemon

SpecReset == InitReset /\ [][NextReset]_vars

HasPrefix(name) == Head(name) = TmuxPrefix

\* C20: after a --reset that returned success no session whose name starts
\* with "claudesquad-" exists, whatever sessions existed before, and the
\* persisted list is empty
C20_ResetLeavesNothing ==
    (resetFlag /\ mainPc = "exited" /\ mainLog[Len(mainLog)] = "success") =>
        /\ stored = <<>>
        /\ \A n \in mux : ~HasPrefix(n)

(* ------------------- claims on the key handlers, continued --------------- *)

\* the instance holds a session on the tmux server: started and not paused
IsLive(inst) == inst.started /\ inst.Status # Paused

Front(list) == SubSeq(list, 1, Len(list) - 1)

\* C22: when Start fails on Enter the instance under creation leaves the
\* list, the state is default again and the storage is as it was; the list is
\* the list before creation began (while the title is typed the instances
\* before the new one stay as they are)
C22_FailedStartRollsBack ==
    /\ [][(appLog'.key = "enter" /\ appLog'.err = "start failed") =>
              /\ instances' = Front(instances)
              /\ \A k \in 1..Len(instances') : instances'[k].started
              /\ state' = "default"
              /\ stored' = stored]_vars
    /\ [][(state = "new" /\ state' = "new") =>
              Front(instances') = Front(instances)]_vars
    /\ [][(state = "default" /\ state' = "new") =>
              Front(instances') = instances]_vars

\* a failed Start beside a loaded instance, which stays
C22_Witness ==
    /\ appLog.key = "enter" /\ appLog.err = "start failed"
    /\ state = "default" /\ Len(instances) = 1 /\ appLog.lenBefore = 2

\* C24: Enter pressed again after a failed save keeps the started instance in
\* the list, and persists the list when the write succeeds
C24_EnterAgainPersists ==
    [][(state = "new" /\ Len(instances) > 0 /\ instances[LastIdx].started
           /\ appLog'.key = "enter") =>
          /\ Len(instances') = Len(instances)
          /\ appLog'.err = "" => stored' = Persisted(instances')]_vars

\* the titles of a list of instances or of records
Titles(list) == {list[k].Title : k \in 1..Len(list)}

\* C25: a kill whose DeleteInstance failed leaves the list and the storage as
\* they were; after a kill the storage holds an entry for exactly the
\* instances of the list
C25_KillDeletesFirst ==
    /\ [](appLog.key = "kill" => Titles(stored) = Titles(instances))
    /\ [][(appLog'.key = "kill" /\ appLog'.err # "") =>
              /\ instances' = instances
              /\ stored' = stored]_vars
    /\ [][(appLog'.key = "kill" /\ appLog'.err = "") =>
              /\ instances[selectedIdx].Title \notin Titles(stored')
              /\ Len(instances') = Len(instances) - 1]_vars

\* a kill refused by the storage, the instance still in the list
C25_Witness ==
    /\ appLog.key = "kill" /\ appLog.err # ""
    /\ Len(instances) = 2 /\ Len(stored) = 2

\* C26: once the overlay reported that it should close, submitted or
\* cancelled, the state is default
C26_OverlayAlwaysCloses ==
    appLog.key \in {"overlay submit", "overlay cancel"} => state = "default"

(* ----------------------------- the error banner -------------------------- *)

\* the number a showErrorMessageForShortTime call gets: the least one with
\* no hideErrMsg under way
FreshShow ==
    CHOOSE n \in 1..MaxPending :
        n \notin hideMsgs /\ \A m \in 1..(n - 1) : m \in hideMsgs

\* showErrorMessageForShortTime when the handler returned an error:
\* errBox.SetError, and the command that will send hideErrMsg
Banner ==
    /\ IF appLog'.err # ""
       THEN /\ Cardinality(hideMsgs) < MaxPending
            /\ errBox' = FreshShow
            /\ hideMsgs' = hideMsgs \cup {FreshShow}
       ELSE UNCHANGED <<errBox, hideMsgs>>
    /\ UNCHANGED bannerLog

\* a handler run on a key message, as Update runs it after the keySent prelude
ShowsError == Banner /\ UNCHANGED <<keySent, resent, arrived, keyLog>>

\* Update on hideErrMsg: errBox.Clear(); the timer of call n ran out, or the
\* context was cancelled
HideErrMsg ==
    /\ \E n \in hideMsgs :
          /\ hideMsgs' = hideMsgs \ {n}
          /\ bannerLog' = [cleared |-> errBox, by |-> n]
    /\ errBox' = 0
    /\ UNCHANGED <<keySent, resent, arrived, keyLog, tmuxVars, tickVars,
                   monVars, appVars, mainVars>>

(* --------------------- the UI refusing what is typed --------------------- *)

\* newHome with nine saved instances
InitReject == InitLimit /\ Len(stored) = GlobalInstanceLimit - 1

NextReject ==
    \/ \E prompt \in BOOLEAN : DefaultNew(prompt) /\ ShowsError
    \/ \E runes \in TitleRunes :
          /\ Len(instances) > 0
          /\ \A k \in 1..Len(TitleInProgress) : TitleInProgress[k] = "a"
          /\ NewRunes(runes) /\ ShowsError
    \/ /\ Len(instances) > 0 /\ Len(TitleInProgress) >= TitleLimit - 1
       /\ NewSpace /\ ShowsError
    \/ NewBackspace /\ ShowsError
    \/ NewEnter /\ ShowsError
    \/ NewCtrlC /\ ShowsError
    \/ PromptKey /\ ShowsError
    \/ HideErrMsg

SpecReject == InitReject /\ [][NextReject]_vars

\* the errors of a refused input: an empty title on Enter, an edit at the
\* length limit, 'new' or 'prompt' at the instance limit
Rejections ==
    {"title cannot be empty", "title cannot be longer than 32 characters",
     "title too long", "you can't create more than 10 instances"}

\* C23: a refused input sets the error banner and nothing else: the state of
\* the UI, the list with every title and status, the selection and the
\* storage are as before
C23_RejectedInputOnlySetsBanner ==
    [][(appLog'.err \in Rejections
           /\ Cardinality(hideMsgs') > Cardinality(hideMsgs)) =>
          /\ errBox' \in hideMsgs' \ hideMsgs
          /\ UNCHANGED <<state, promptAfterName, instances, selectedIdx,
                         stored, quit>>]_vars

\* 'new' refused on a full list whose last title has the full length
C23_Witness ==
    /\ appLog.key = "new" /\ appLog.err \in Rejections /\ errBox # 0
    /\ Len(instances) = GlobalInstanceLimit
    /\ Len(instances[LastIdx].Title) = TitleLimit

\* C29: a banner is cleared only by the hideErrMsg of the call that showed it
C29_BannerClearedByOwnTimer ==
    bannerLog.cleared # 0 => bannerLog.by = bannerLog.cleared

(* ------------------------ key messages and keySent ----------------------- *)

\* the keys the operator presses
Kinds == {"n", "N", "a", "enter", "ctrl+c"}

\* stateDefault, a key that is not in the key map: nothing happens
DefaultUnmapped ==
    /\ ~quit /\ state = "default"
    /\ appLog' = KeyLog("unmapped", "")
    /\ UNCHANGED <<state, promptAfterName, stored, quit, tickVars, tmuxVars,
                   monVars, mainVars>>

\* stateDefault, Enter: nothing on an empty list, else Attach and the wait
\* for the detach, or the error of Attach
DefaultAttach ==
    /\ ~quit /\ state = "default"
    /\ \E ok \in BOOLEAN :
          appLog' = KeyLog("attach", IF ok \/ Len(instances) = 0 THEN ""
                                     ELSE "attach failed")
    /\ UNCHANGED <<state, promptAfterName, stored, quit, tickVars, tmuxVars,
                   monVars, mainVars>>

\* handleKeyPress behind the keySent prelude: the handler of the key in the
\* state the UI is in
Act(kind) ==
    \/ state = "new" /\ kind = "ctrl+c" /\ NewCtrlC
    \/ state = "new" /\ kind = "enter" /\ NewEnter
    \/ state = "new" /\ kind \in {"n", "N", "a"} /\ NewRunes(<<kind>>)
    \/ state = "prompt" /\ PromptKey
    \/ state = "default" /\ kind = "ctrl+c" /\ DefaultQuit
    \/ state = "default" /\ kind = "n" /\ DefaultNew(FALSE)
    \/ state = "default" /\ kind = "N" /\ DefaultNew(TRUE)
    \/ state = "default" /\ kind = "enter" /\ DefaultAttach
    \/ state = "default" /\ kind = "a" /\ DefaultUnmapped

\* handleKeyPress on the key message number id; rest are the re-sent messages
\* still under way. The first delivery outside statePrompt sets keySent and
\* re-sends the message; any other delivery clears keySent and acts on the key
HandleKeyPress(id, kind, rest) ==
    IF ~keySent /\ state # "prompt"
    THEN /\ keySent' = TRUE
         /\ resent' = rest \cup {[id |-> id, kind |-> kind]}
         /\ UNCHANGED <<keyLog, errBox, hideMsgs, bannerLog, appVars, tickVars,
                        tmuxVars, monVars, mainVars>>
    ELSE /\ keySent' = FALSE
         /\ resent' = rest
         /\ keyLog' = Append(keyLog, id)
         /\ Act(kind)
         /\ Banner

\* Update on a key message read from the terminal
UserKey(kind) ==
    /\ ~quit /\ arrived < MaxKeys
    /\ arrived' = arrived + 1
    /\ HandleKeyPress(arrived + 1, kind, resent)

\* Update on a key message a command of handleKeyPress sent back
ResentKey ==
    /\ ~quit
    /\ \E m \in resent : HandleKeyPress(m.id, m.kind, resent \ {m})
    /\ UNCHANGED arrived

InitKeys == InitTitle

NextKeys ==
    \/ \E kind \in Kinds : UserKey(kind)
    \/ ResentKey
    \/ HideErrMsg

SpecKeys == InitKeys /\ [][NextKeys]_vars

\* C30: every key message is acted on once, and the keys are acted on in the
\* order they arrived
C30_KeysActedOnInOrder ==
    \A i \in 1..Len(keyLog) : keyLog[i] = i

(* ------------------- claims on Close and on Attach --------------------- *)

\* a step of the UI thread that is a call of Close
CloseStep == ret'.op = "Close" /\ uiHandled' # uiHandled

\* C27: Close closes the attach pty when one is set and always issues
\* kill-session, also when closing the pty failed; it leaves ptmx nil; it
\* returns nil exactly when no step failed, the one error when one step failed
\* and a merged error naming both when both failed; a Close that follows a
\* Close closes no pty
C27_CloseAlwaysKillsAndMerges ==
    [][CloseStep =>
         LET closeErr == HasPart(ret'.err, "error closing PTY")
             killErr  == HasPart(ret'.err, "error killing tmux session")
             target   == KillTarget(t.sanitizedName, mux)
         IN  /\ t'.ptmx = Nil
             /\ (t.ptmx # Nil /\ t.ptmx \in DOMAIN ptys) => ptys'[t.ptmx] = "closed"
             /\ t.ptmx = Nil => (ptys' = ptys /\ ~closeErr)
             /\ closeErr => t.ptmx # Nil
             /\ (t.ptmx # Nil /\ ~IsOpen(t.ptmx)) => closeErr
             /\ killErr <=> mux' = mux
             /\ ~killErr => mux' = mux \ target /\ target # {}
             /\ (~closeErr /\ ~killErr) <=> ret'.err = NoErr
             /\ (closeErr /\ ~killErr) => ret'.err = <<"error closing PTY">>
             /\ (~closeErr /\ killErr) => ret'.err = <<"error killing tmux session">>
             /\ (closeErr /\ killErr) =>
                    ret'.err = <<"multiple errors occurred during cleanup",
                                 "error closing PTY", "error killing tmux session">>
             /\ ret.op = "Close" => (ptys' = ptys /\ ~closeErr)
    ]_vars

\* a Close where closing the pty and killing the session both failed
C27_Witness ==
    /\ ret.op = "Close" /\ Len(ret.err) = 3 /\ t.ptmx = Nil
    /\ mux = ret.muxBefore

\* C28: once the channel of an attach has been closed, no goroutine that
\* Attach started for it is still running: neither its pty-to-stdout reader
\* nor its window-size monitor, and its context has been cancelled
C28_NoTaskOutlivesSignal ==
    \A k \in DOMAIN chans :
        chans[k] > 0 =>
            /\ \A r \in readers : r.wg # k
            /\ k \notin monitors
            /\ k \in cancelled

(* --------------- claims on the instance under creation ----------------- *)

\* C31: whenever the UI is in the new-instance state the list is non-empty
\* and its last element, the instance under creation, is not started
C31_NewStateLastUnstarted ==
    state = "new" =>
        /\ Len(instances) > 0
        /\ ~InstanceStarted(instances[LastIdx])

\* C32: the finalizer list.AddInstance returned is called exactly once for an
\* instance: not at all while the instance is under creation, once when its
\* creation is complete (or when it was loaded), never a second time
C32_FinalizerOncePerInstance ==
    \A i \in 1..Len(instances) :
        instances[i].finalized =
            IF state = "new" /\ i = LastIdx THEN 0 ELSE 1

(* ------------------ one instance and its TmuxSession ------------------- *)

\* the instance of the session t; its monitor is t.monitor, the field of the
\* record is not used
SessionInstance(inst) == [inst EXCEPT !.monitor = NoMonitor]

\* a new instance on an empty server, its session not started yet
InitRestore ==
    /\ t = NewTmuxSession(<<"a", " ">>)
    /\ mux = {}
    /\ InitSession
    /\ autoYes = FALSE
    /\ instances = <<SessionInstance(NewInstance)>>
    /\ panes = <<<<>>>>
    /\ selectedIdx = 1
    /\ lastTick = <<>>
    /\ MonIdle /\ AppIdle /\ MainIdle /\ UIIdle

\* Instance.Start(true): Start on the session; the instance is started when
\* Start returned no error
InstanceStartCall ==
    /\ uiPc = "idle" /\ phase = "uninit"
    /\ \E program \in Programs :
       \E ptyOK, partial, appears, restoreOK, ioOK, cmdOK, seen \in BOOLEAN :
          StartBody(program, ptyOK, partial, appears, restoreOK, ioOK, cmdOK, seen)
    /\ uiHandled' = ~uiHandled
    /\ instances' = IF ret'.err = NoErr
                     THEN <<SessionInstance(InstanceStart(instances[1]))>>
                     ELSE instances
    /\ UNCHANGED <<termRaw, uiPc, uiCh, goVars, autoYes, panes, selectedIdx,
                   lastTick, monVars, appVars, mainVars, uiVars>>

\* tickUpdateMetadataMessage on the list of one instance: HasUpdated on the
\* monitor of t, then the branch of the loop body. lastTick holds the log of
\* this tick and, behind it, the log of the tick before when the program has
\* printed nothing since
TickProbe ==
    /\ uiPc = "idle" /\ phase \in {"detached", "attached"}
    /\ \E cmdOK \in BOOLEAN :
          LET inst == [instances[1] EXCEPT !.monitor = t.monitor]
              r == TickInstance(inst, panes[1],
                                cmdOK /\ DoesSessionExist(t.sanitizedName))
          IN  /\ t' = [t EXCEPT !.monitor = r.inst.monitor]
              /\ instances' = <<SessionInstance(r.inst)>>
              /\ lastTick' = <<r.log>> \o (IF lastTick = <<>> THEN <<>>
                                                              ELSE <<lastTick[1]>>)
              /\ ret' = [NoRet EXCEPT !.op = "HasUpdated",
                                      !.updated = r.log.updated,
                                      !.hasPrompt = r.log.prompt]
    /\ uiHandled' = ~uiHandled
    /\ UNCHANGED <<mux, ptys, termRaw, uiPc, uiCh, phase, goVars, autoYes, panes,
                   selectedIdx, monVars, appVars, mainVars, uiVars>>

NextRestore ==
    \/ InstanceStartCall
    \/ TickProbe
    \/ InstanceOutput
    \/ (Len(chans) < MaxReattach /\ AttachCall)
    \/ UIResume
    \/ ReaderBind
    \/ ReaderExit
    \/ MonitorExit
    \/ TimeoutFires
    \/ StdinRead
    \/ DetachClosePty
    \/ DetachRestore
    \/ DetachRestoreTerm
    \/ DetachCancel
    \/ DetachWait
    \/ DetachReturn

SpecRestore == InitRestore /\ [][NextRestore]_vars

\* a step that is a metadata tick
TickStep == ret'.op = "HasUpdated" /\ uiHandled' # uiHandled

\* the call before this step was a Detach that ran Restore
DetachedWithRestore == ret.op = "Detach" /\ HasPart(detachLog, "restore")

\* the tick before captured the pane, and the program printed nothing since
SamePaneAsBefore == lastTick # <<>> /\ lastTick[1].captured

\* C33 (as stated): the first HasUpdated after every Restore returns
\* updated=true when the pane is the one the tick before saw, and the tick
\* sets the status to Running
C33_TickAfterRestoreAlwaysRunning ==
    [][(TickStep /\ DetachedWithRestore /\ SamePaneAsBefore) =>
          (ret'.updated /\ instances'[1].Status = Running)]_vars

\* C33 (amended): Restore discards the stored hash, so the first HasUpdated
\* after a Start or a Detach that ran Restore returns updated=true whenever
\* the capture of the pane succeeds, also when the pane is the one the tick
\* before saw; the tick after an attach and detach without output then sets
\* the status to Running. When the capture fails it returns false
C33_TickAfterRestoreSetsRunning ==
    [][TickStep =>
          /\ (DetachedWithRestore /\ SamePaneAsBefore /\ lastTick'[1].captured)
                 => (ret'.updated /\ instances'[1].Status = Running)
          /\ (ret.op = "Start" /\ ret.err = NoErr /\ lastTick'[1].captured)
                 => (ret'.updated /\ instances'[1].Status = Running)
          /\ ~lastTick'[1].captured => ~ret'.updated
    ]_vars

\* a Ready instance was attached and detached without output, and the tick
\* after it captured the same pane and set Running
C33_Witness ==
    /\ ret.op = "HasUpdated" /\ ret.updated
    /\ Len(lastTick) = 2
    /\ lastTick[2].captured /\ lastTick[1].captured
    /\ lastTick[1].before = Ready /\ instances[1].Status = Running
    /\ HasPart(detachLog, "restore") /\ chans # <<>>

====
